---- MODULE Spec2Model ----
(***************************************************************************)
(* Damped Gauss-Newton (dGN) for the rank-R CPD of a third order tensor,   *)
(* modules/GaussNewton.py.                                                 *)
(*                                                                         *)
(* Numbers.  The program computes in float64.  A float is modelled as a    *)
(* record: a finite value (an integer), NaN, or a signed infinity, with    *)
(* the IEEE rules for the special values.  Tensor and factor entries are   *)
(* integers; norms, errors and tolerances are fixed-point numbers counted  *)
(* in units of 1/Unit, and sqrt and / round down to that grid.             *)
(*                                                                         *)
(* The linear solve.  The control flow of cg (iteration cap, stopping      *)
(* rules, returned iteration count) is modelled as written.  The floating  *)
(* point values that its linear algebra produces (the residual norm of     *)
(* every inner iteration and the step) are drawn from small sets: a record *)
(* `o` is one such draw, and cg yields one result for every draw.          *)
(*                                                                         *)
(* The call.  pc tells where the call of dGN stands: "loop" (the for loop  *)
(* runs), "exit" (the loop is left), "returned", or the name of the        *)
(* exception or exit that ended it.                                        *)
(*                                                                         *)
(* The callees.  SpecCalls adds update_damp and the loop of cg called on   *)
(* their own, with arguments drawn from bounded sets: pc is then           *)
(* "update_damp" or "cg" before the call and "... returned" after it.      *)
(***************************************************************************)
EXTENDS Integers, Sequences, FiniteSets, TLC

\* ------------------------------------------------------------------ bounds
\* Shape of T and rank.
m == 2
n == 2
p == 2
R == 1
\* Largest options.maxiter drawn.
MaxIter == 4
\* Fixed-point resolution: a norm, an error or a tolerance v stands for v/Unit.
Unit == 4
\* Entries of x stay within -MaxEntry..MaxEntry (the step is drawn accordingly).
MaxEntry == 3
\* Calls of cg and update_damp on their own: R * (m + n + p) of the cg calls,
\* and the largest error and residual norm handed to update_damp.
CgDof == 8
MaxErr == 20

\* ------------------------------------------------------------------ floats
Fin(v) == [k |-> "fin", v |-> v]
NaN == [k |-> "nan", v |-> 0]
PInf == [k |-> "inf", v |-> 1]
NInf == [k |-> "inf", v |-> -1]
\* Slot of an array made by numpy.empty that was never written.
Uninit == [k |-> "uninit", v |-> 0]

IsFin(a) == a.k = "fin"
IsNaN(a) == a.k = "nan"
IsInf(a) == a.k = "inf"
Sgn(v) == IF v > 0 THEN 1 ELSE IF v < 0 THEN -1 ELSE 0
AbsInt(v) == IF v < 0 THEN -v ELSE v
MaxInt(a, b) == IF a >= b THEN a ELSE b
MinInt(a, b) == IF a <= b THEN a ELSE b

FNeg(a) == IF IsNaN(a) THEN NaN ELSE [k |-> a.k, v |-> -a.v]
FAbs(a) == IF IsNaN(a) THEN NaN ELSE [k |-> a.k, v |-> AbsInt(a.v)]
FAdd(a, b) ==
    IF IsNaN(a) \/ IsNaN(b) THEN NaN
    ELSE IF IsInf(a) /\ IsInf(b) THEN (IF a.v = b.v THEN a ELSE NaN)
    ELSE IF IsInf(a) THEN a
    ELSE IF IsInf(b) THEN b
    ELSE Fin(a.v + b.v)
FSub(a, b) == FAdd(a, FNeg(b))
FMul(a, b) ==
    IF IsNaN(a) \/ IsNaN(b) THEN NaN
    ELSE IF IsFin(a) /\ IsFin(b) THEN Fin(a.v * b.v)
    ELSE IF Sgn(a.v) * Sgn(b.v) = 0 THEN NaN
    ELSE IF Sgn(a.v) * Sgn(b.v) > 0 THEN PInf ELSE NInf
\* a * b for fixed-point a, b >= 0; the product is fixed-point again.
FMulFix(a, b) ==
    LET c == FMul(a, b) IN IF IsFin(c) THEN Fin(c.v \div Unit) ELSE c
\* a < b; every comparison with NaN is false.
FLt(a, b) ==
    IF IsNaN(a) \/ IsNaN(b) THEN FALSE
    ELSE IF IsInf(a) THEN (a.v < 0 /\ ~(IsInf(b) /\ b.v < 0))
    ELSE IF IsInf(b) THEN b.v > 0
    ELSE a.v < b.v
FGt(a, b) == FLt(b, a)
FLe(a, b) == ~IsNaN(a) /\ ~IsNaN(b) /\ ~FLt(b, a)
\* a/b for fixed-point a, b >= 0; the quotient is fixed-point again.
FDiv(a, b) ==
    IF IsNaN(a) \/ IsNaN(b) THEN NaN
    ELSE IF IsInf(a) THEN (IF IsInf(b) THEN NaN ELSE a)
    ELSE IF IsInf(b) THEN Fin(0)
    ELSE IF b.v = 0 THEN (IF a.v = 0 THEN NaN ELSE IF a.v > 0 THEN PInf ELSE NInf)
    ELSE Fin((a.v * Unit) \div b.v)

RECURSIVE SqrtBetween(_, _, _)
SqrtBetween(v, lo, hi) ==
    IF lo >= hi THEN lo
    ELSE LET mid == (lo + hi + 1) \div 2
         IN  IF mid * mid <= v THEN SqrtBetween(v, mid, hi)
             ELSE SqrtBetween(v, lo, mid - 1)
\* floor(sqrt(v)), v >= 0.
ISqrt(v) == SqrtBetween(v, 0, MinInt(v, 46340))

\* ------------------------------------------------------------------ arrays
\* A vector is a function on 0..len-1, a matrix on (0..rows-1) \X (0..R-1),
\* a 3-D array on (0..m-1) \X (0..n-1) \X (0..p-1): the program's indices.
Rows(d) == 0 .. (d - 1)
Cols == 0 .. (R - 1)
VLen == R * (m + n + p)

\* An array in memory: every entry is computed once, when the array is made.
Array(f) == f @@ <<>>

RECURSIVE FSumTo(_, _)
\* f[0] + ... + f[cnt-1], in index order.
FSumTo(f, cnt) == IF cnt = 0 THEN Fin(0) ELSE FAdd(FSumTo(f, cnt - 1), f[cnt - 1])

RECURSIVE FMaxTo(_, _)
\* numpy max of f[0..cnt-1] (cnt >= 1): NaN as soon as one entry is NaN.
FMaxTo(f, cnt) ==
    IF cnt = 1 THEN f[0]
    ELSE LET r == FMaxTo(f, cnt - 1)
         IN  IF IsNaN(r) \/ IsNaN(f[cnt - 1]) THEN NaN
             ELSE IF FLt(r, f[cnt - 1]) THEN f[cnt - 1] ELSE r

\* numpy.linalg.norm(v) of a vector with integer entries, as a fixed-point number.
norm(v, len) ==
    LET s == FSumTo([i \in 0 .. (len - 1) |-> FMul(v[i], v[i])], len)
    IN  IF IsFin(s) THEN Fin(ISqrt(Unit * Unit * s.v)) ELSE s
\* numpy.linalg.norm(v, inf) = max |v[i]|, as a fixed-point number.
norm_inf(v, len) ==
    LET a == FMaxTo([i \in 0 .. (len - 1) |-> FAbs(v[i])], len)
    IN  IF IsFin(a) THEN Fin(Unit * a.v) ELSE a

\* ------------------------------------------------------------------ Conversion
Idx3 == Rows(m) \X Rows(n) \X Rows(p)
\* The index triples of an array of shape a x b x c.
Box(a, b, c) == Rows(a) \X Rows(b) \X Rows(c)

\* X.flatten('F') of the three factors, concatenated (dGN, line 119): column r
\* of a factor with d rows lies at offsets r*d .. (r+1)*d - 1 of its block.
flatten_concat(Xc, Yc, Zc) ==
    Array([s \in 0 .. (VLen - 1) |->
        IF s < m * R THEN Xc[<<s % m, s \div m>>]
        ELSE IF s < (m + n) * R THEN Yc[<<(s - m * R) % n, (s - m * R) \div n>>]
        ELSE Zc[<<(s - (m + n) * R) % p, (s - (m + n) * R) \div p>>]])

\* Conversion.x2cpd: the factor matrices encoded by the flat vector v.
x2cpd(v) ==
    [X |-> Array([ir \in Rows(m) \X Cols |-> v[ir[2] * m + ir[1]]]),
     Y |-> Array([jr \in Rows(n) \X Cols |-> v[m * R + jr[2] * n + jr[1]]]),
     Z |-> Array([kr \in Rows(p) \X Cols |-> v[(m + n) * R + kr[2] * p + kr[1]]])]

\* Conversion.cpd2tens: T_approx[i,j,k] = sum_r X[i,r]*Y[j,r]*Z[k,r].
cpd2tens(Xc, Yc, Zc) ==
    Array([ijk \in Idx3 |->
        FSumTo([r \in Cols |->
                   FMul(FMul(Xc[<<ijk[1], r>>], Yc[<<ijk[2], r>>]), Zc[<<ijk[3], r>>])], R)])

\* Conversion.transform with constraints = [low, upp, factor]: low = upp = 0
\* means no box; otherwise every entry is brought into [low, upp].
clip(a, low, upp) ==
    IF ~IsFin(a) THEN a
    ELSE IF a.v < low THEN Fin(low) ELSE IF a.v > upp THEN Fin(upp) ELSE a
transform(F, low, upp) ==
    IF low = 0 /\ upp = 0 THEN F
    ELSE [X |-> Array([ir \in DOMAIN F.X |-> clip(F.X[ir], low, upp)]),
          Y |-> Array([jr \in DOMAIN F.Y |-> clip(F.Y[jr], low, upp)]),
          Z |-> Array([kr \in DOMAIN F.Z |-> clip(F.Z[kr], low, upp)])]

\* The 3-D arrays as vectors, for norm(T) and norm(T - T_approx).
ravel(A) ==
    Array([s \in 0 .. (m * n * p - 1) |-> A[<<s \div (n * p), (s \div p) % n, s % p>>]])
tensor_norm(A) == norm(ravel(A), m * n * p)

\* ------------------------------------------------------------------ kernels
\* residual: every index triple writes res[n*p*i + p*j + k]; a slot no
\* triple writes keeps what it held.
residual(res, Tc, T_approx) ==
    Array([s \in DOMAIN res |->
        LET W == {ijk \in Idx3 : n * p * ijk[1] + p * ijk[2] + ijk[3] = s}
        IN  IF W = {} THEN res[s]
            ELSE LET w == CHOOSE w \in W : TRUE
                 IN  FSub(Tc[w], T_approx[w])])

\* rmatvec, lines 611-620: the arrays N2, NX, NY, NZ made from u (every
\* iteration of the two loops writes slots of its own);
\* u[(i*n + j)*p + k] is entry (i, j, k).
rmatvec_N2(u1, i, j, k) == u1[(i * n + j) * p + k]
\* NX[j][i, r], NY[i][j, r], NZ[i][r, k]
rmatvec_NX(u1, Zc, j, i, r) ==
    FSumTo([k \in Rows(p) |-> FMul(rmatvec_N2(u1, i, j, k), Zc[<<k, r>>])], p)
rmatvec_NY(u1, Zc, i, j, r) ==
    FSumTo([k \in Rows(p) |-> FMul(rmatvec_N2(u1, i, j, k), Zc[<<k, r>>])], p)
rmatvec_NZ(u1, Yc, i, r, k) ==
    FSumTo([j \in Rows(n) |-> FMul(Yc[<<j, r>>], rmatvec_N2(u1, i, j, k))], n)

\* rmatvec for factors of RR columns, the iterations of its loops run one
\* after the other: -(Dres^T u), by blocks.
rmatvec_rank(u1, Xc, Yc, Zc, RR) ==
    LET a1(r, i) == FSumTo([j \in Rows(n) |->
                               FMul(Yc[<<j, r>>], rmatvec_NX(u1, Zc, j, i, r))], n)
        a2(r, j) == FSumTo([i \in Rows(m) |->
                               FMul(Xc[<<i, r>>], rmatvec_NY(u1, Zc, i, j, r))], m)
        a3(r, k) == FSumTo([i \in Rows(m) |->
                               FMul(Xc[<<i, r>>], rmatvec_NZ(u1, Yc, i, r, k))], m)
    IN  Array([s \in 0 .. (RR * (m + n + p) - 1) |->
            FNeg(IF s < RR * m THEN a1(s \div m, s % m)
                 ELSE IF s < RR * (m + n) THEN a2((s - RR * m) \div n, (s - RR * m) % n)
                 ELSE a3((s - RR * (m + n)) \div p, (s - RR * (m + n)) % p))])

\* rmatvec(u, X, Y, Z, N1, N2, NX, NY, NZ, m, n, p, R) as dGN calls it.
rmatvec(u1, Xc, Yc, Zc) == rmatvec_rank(u1, Xc, Yc, Zc, R)

\* numpy.dot of an a x b and a b x c matrix.
dot(A, B, a, b, c) ==
    Array([ij \in Rows(a) \X Rows(c) |->
        FSumTo([k \in Rows(b) |-> FMul(A[<<ij[1], k>>], B[<<k, ij[2]>>])], b)])
\* dot(A.T, A) of a factor with d rows.
gramian(A, d) ==
    Array([rs \in Cols \X Cols |->
        FSumTo([i \in Rows(d) |-> FMul(A[<<i, rs[1]>>], A[<<i, rs[2]>>])], d)])
\* MultilinearAlgebra.hadamard(A, B, M, R): the entrywise product of two
\* R x R matrices, written into M and returned.
hadamard(A, B) == Array([rs \in Cols \X Cols |-> FMul(A[rs], B[rs])])
\* Conversion.vec(M, Bv, d, R): column r of the d x R matrix M goes to
\* Bv[r*d : (r+1)*d]; Conversion.vect(M, Bv, d, R): row r of the R x d matrix.
vec(A, d) == Array([s \in 0 .. (d * R - 1) |-> A[<<s % d, s \div d>>]])
vect(A, d) == Array([s \in 0 .. (d * R - 1) |-> A[<<s \div d, s % d>>]])
\* a + b + c of three vectors of one length.
FVAdd3(a, b, c) == Array([s \in DOMAIN a |-> FAdd(FAdd(a[s], b[s]), c[s])])
\* concatenate((a, b, c)) of blocks of m*R, n*R and p*R entries.
concatenate(a, b, c) ==
    Array([s \in 0 .. (VLen - 1) |->
        IF s < m * R THEN a[s]
        ELSE IF s < (m + n) * R THEN b[s - m * R] ELSE c[s - (m + n) * R]])

\* gramians: the arrays d names, after the call.
gramians(d, Xc, Yc, Zc) ==
    LET GX == gramian(Xc, m)
        GY == gramian(Yc, n)
        GZ == gramian(Zc, p)
    IN  [d EXCEPT !.Gr_X = GX, !.Gr_Y = GY, !.Gr_Z = GZ,
                  !.Gr_XY = hadamard(GX, GY),
                  !.Gr_XZ = hadamard(GX, GZ),
                  !.Gr_YZ = hadamard(GY, GZ)]

\* matvec with its 4th argument in the place of its 16th: the first Hadamard
\* product is written into Gr_Z.
matvec_arrays_into_Gr_Z(d, Xc, Yc, Zc, v) ==
    LET V_Yt == Array([rj \in Cols \X Rows(n) |-> v[m * R + rj[1] * n + rj[2]]])
    IN  [d EXCEPT !.Gr_Z = hadamard(d.Gr_Z, dot(V_Yt, Yc, R, n, R))]

\* matvec, lines 556-598: the arrays d names, after the call with vector v.
\* V_Xt, V_Yt, V_Zt are views of v (lines 559-561), every other array is
\* written through out=, or as the output argument of hadamard, vec and vect.
matvec_arrays(d, Xc, Yc, Zc, v) ==
    LET V_Xt == Array([ri \in Cols \X Rows(m) |-> v[ri[1] * m + ri[2]]])
        V_Yt == Array([rj \in Cols \X Rows(n) |-> v[m * R + rj[1] * n + rj[2]]])
        V_Zt == Array([rk \in Cols \X Rows(p) |-> v[R * (m + n) + rk[1] * p + rk[2]]])
        VX == dot(V_Xt, Xc, R, m, R)
        VY == dot(V_Yt, Yc, R, n, R)
        VZ == dot(V_Zt, Zc, R, p, R)
        ZVY == hadamard(d.Gr_Z, VY)
        YVZ == hadamard(d.Gr_Y, VZ)
        XVZ == hadamard(d.Gr_X, VZ)
        ZVX == hadamard(d.Gr_Z, VX)
        YVX == hadamard(d.Gr_Y, VX)
        XVY == hadamard(d.Gr_X, VY)
        X_ZVY == dot(Xc, ZVY, m, R, R)
        X_YVZ == dot(Xc, YVZ, m, R, R)
        Y_XVZ == dot(Yc, XVZ, n, R, R)
        Y_ZVX == dot(Yc, ZVX, n, R, R)
        Z_YVX == dot(Zc, YVX, p, R, R)
        Z_XVY == dot(Zc, XVY, p, R, R)
        YZ_VX == dot(d.Gr_YZ, V_Xt, R, R, m)
        XZ_VY == dot(d.Gr_XZ, V_Yt, R, R, n)
        XY_VZ == dot(d.Gr_XY, V_Zt, R, R, p)
    IN  [d EXCEPT !.V_Xt_dot_X = VX, !.V_Yt_dot_Y = VY, !.V_Zt_dot_Z = VZ,
                  !.Gr_Z_V_Yt_dot_Y = ZVY, !.Gr_Y_V_Zt_dot_Z = YVZ,
                  !.Gr_X_V_Zt_dot_Z = XVZ, !.Gr_Z_V_Xt_dot_X = ZVX,
                  !.Gr_Y_V_Xt_dot_X = YVX, !.Gr_X_V_Yt_dot_Y = XVY,
                  !.X_dot_Gr_Z_V_Yt_dot_Y = X_ZVY, !.X_dot_Gr_Y_V_Zt_dot_Z = X_YVZ,
                  !.Y_dot_Gr_X_V_Zt_dot_Z = Y_XVZ, !.Y_dot_Gr_Z_V_Xt_dot_X = Y_ZVX,
                  !.Z_dot_Gr_Y_V_Xt_dot_X = Z_YVX, !.Z_dot_Gr_X_V_Yt_dot_Y = Z_XVY,
                  !.Gr_YZ_V_Xt = YZ_VX, !.Gr_XZ_V_Yt = XZ_VY, !.Gr_XY_V_Zt = XY_VZ,
                  !.B_X_v = vect(YZ_VX, m), !.B_Y_v = vect(XZ_VY, n),
                  !.B_Z_v = vect(XY_VZ, p),
                  !.B_XY_v = vec(X_ZVY, m), !.B_XZ_v = vec(X_YVZ, m),
                  !.B_YZ_v = vec(Y_XVZ, n), !.B_XYt_v = vec(Y_ZVX, n),
                  !.B_XZt_v = vec(Z_YVX, p), !.B_YZt_v = vec(Z_XVY, p)]

\* matvec, line 600: what it returns, from the arrays it has written.
matvec(d) ==
    concatenate(FVAdd3(d.B_X_v, d.B_XY_v, d.B_XZ_v),
                FVAdd3(d.B_XYt_v, d.B_Y_v, d.B_YZ_v),
                FVAdd3(d.B_XZt_v, d.B_YZt_v, d.B_Z_v))

\* dot(A[:, r], A[:, r]) of a factor with d rows.
coldot(A, d, r) == FSumTo([i \in Rows(d) |-> FMul(A[<<i, r>>], A[<<i, r>>])], d)
\* sqrt(dot(A[:, r], A[:, r])), fixed-point.
colnorm(A, d, r) ==
    LET s == coldot(A, d, r) IN IF IsFin(s) THEN Fin(ISqrt(Unit * Unit * s.v)) ELSE s

\* regularization: Gamma, a vector laid out like x; norms and their products
\* are fixed-point numbers.
regularization(Xc, Yc, Zc) ==
    LET X_norms == Array([r \in Cols |-> colnorm(Xc, m, r)])
        Y_norms == Array([r \in Cols |-> colnorm(Yc, n, r)])
        Z_norms == Array([r \in Cols |-> colnorm(Zc, p, r)])
        max_XY == FMaxTo([r \in Cols |-> FMulFix(X_norms[r], Y_norms[r])], R)
        max_XZ == FMaxTo([r \in Cols |-> FMulFix(X_norms[r], Z_norms[r])], R)
        max_YZ == FMaxTo([r \in Cols |-> FMulFix(Y_norms[r], Z_norms[r])], R)
        \* Python max(a, b, c): keeps the first unless a later one is greater.
        max2(a, b) == IF FGt(b, a) THEN b ELSE a
        max_all == max2(max2(max_XY, max_XZ), max_YZ)
        gamma_X == Array([r \in Cols |-> FMulFix(FMulFix(Y_norms[r], Z_norms[r]), max_all)])
        gamma_Y == Array([r \in Cols |-> FMulFix(FMulFix(X_norms[r], Z_norms[r]), max_all)])
        gamma_Z == Array([r \in Cols |-> FMulFix(FMulFix(X_norms[r], Y_norms[r]), max_all)])
    IN  Array([s \in 0 .. (VLen - 1) |->
            IF s < m * R THEN gamma_X[s \div m]
            ELSE IF s < R * (m + n) THEN gamma_Y[(s - m * R) \div n]
            ELSE gamma_Z[(s - R * (m + n)) \div p]])

\* The damping parameter is the exact rational damp.num / damp.den, den > 0.
\* precond, lines 680-685: the array M before line 687, entry by entry, times
\* damp.den * Unit (L is fixed-point).
precond_arg(Xc, Yc, Zc, L, damp) ==
    LET sc == Fin(damp.den * Unit)
        XX(r) == coldot(Xc, m, r)
        YY(r) == coldot(Yc, n, r)
        ZZ(r) == coldot(Zc, p, r)
        dl(s) == FMul(Fin(damp.num), L[s])
    IN  Array([s \in 0 .. (VLen - 1) |->
            IF s < m * R THEN FAdd(FMul(sc, FMul(YY(s \div m), ZZ(s \div m))), dl(s))
            ELSE IF s < R * (m + n)
                 THEN FAdd(FMul(sc, FMul(XX((s - m * R) \div n), ZZ((s - m * R) \div n))), dl(s))
            ELSE FAdd(FMul(sc, FMul(XX((s - R * (m + n)) \div p), YY((s - R * (m + n)) \div p))),
                      dl(s))])

\* precond, line 687: M = 1/sqrt(M).  A positive argument a gives the finite
\* positive number 1/sqrt(a), kept as [k |-> "rsqrt", v |-> a]; 1/sqrt(0) is
\* inf; the sqrt of a negative number and of NaN is NaN; 1/sqrt(inf) is 0.
precond(Xc, Yc, Zc, L, damp) ==
    LET A == precond_arg(Xc, Yc, Zc, L, damp)
    IN  Array([s \in 0 .. (VLen - 1) |->
            IF IsNaN(A[s]) THEN NaN
            ELSE IF IsInf(A[s]) THEN (IF A[s].v > 0 THEN Fin(0) ELSE NaN)
            ELSE IF A[s].v > 0 THEN [k |-> "rsqrt", v |-> A[s].v]
            ELSE IF A[s].v = 0 THEN PInf
            ELSE NaN])

\* ------------------------------------------------------------------ cg
Zero == Fin(0)
ConstVec(a) == Array([s \in 0 .. (VLen - 1) |-> a])

\* The residual norm that iteration itn of cg records, given the ones recorded
\* before (list, one per iteration).  NaN once a NaN or an infinity entered the
\* vectors; after an exact 0 the residual stays 0 for one more iteration, whose
\* beta is 0/0, so that the iteration after that one works with NaN (lines
\* 402-412); gradient 0 gives residual 0 at once; else the value drawn.
cg_residualnorm(itn, list, poisoned, zerograd, o) ==
    IF poisoned THEN NaN
    ELSE IF itn >= 1 /\ IsNaN(list[itn]) THEN NaN
    ELSE IF itn >= 1 /\ list[itn] = Zero
         THEN (IF itn >= 2 /\ list[itn - 1] = Zero THEN NaN
               ELSE Zero)
    ELSE IF zerograd THEN Zero
    ELSE o.rn[itn]

RECURSIVE cg_loop_past_cap(_, _, _, _, _, _, _)
\* Variant of cg_loop: the for loop runs one iteration past its cap.
cg_loop_past_cap(itn, list, maxiter, tol, poisoned, zerograd, o) ==
    LET residualnorm == cg_residualnorm(itn, list, poisoned, zerograd, o)
        list2 == Append(list, residualnorm)
    IN  IF FLt(residualnorm, tol) \/ itn >= maxiter
        THEN [itn |-> itn, list |-> list2]
        ELSE cg_loop_past_cap(itn + 1, list2, maxiter, tol, poisoned, zerograd, o)

RECURSIVE cg_loop_tol_le(_, _, _, _, _, _, _)
\* Variant of cg_loop: a residual norm equal to tol ends the loop too.
cg_loop_tol_le(itn, list, maxiter, tol, poisoned, zerograd, o) ==
    LET const == 2 + (maxiter \div 5)
        residualnorm == cg_residualnorm(itn, list, poisoned, zerograd, o)
        list2 == Append(list, residualnorm)
        \* residualnorm_list[a:b], summed (b - a = const on both sides).
        wsum(a, b) == FSumTo([i \in 0 .. (b - a - 1) |-> list2[a + i + 1]], b - a)
        plateau == /\ itn >= 2 * const
                   /\ itn % const = 0
                   /\ FLt(wsum(itn - 2 * const, itn - const), wsum(itn - const, itn))
    IN  IF FLe(residualnorm, tol) \/ plateau \/ itn + 1 >= maxiter
        THEN [itn |-> itn, list |-> list2]
        ELSE cg_loop_tol_le(itn + 1, list2, maxiter, tol, poisoned, zerograd, o)

RECURSIVE cg_loop_plateau_le(_, _, _, _, _, _, _)
\* Variant of cg_loop: equal window means end the loop too.
cg_loop_plateau_le(itn, list, maxiter, tol, poisoned, zerograd, o) ==
    LET const == 2 + (maxiter \div 5)
        residualnorm == cg_residualnorm(itn, list, poisoned, zerograd, o)
        list2 == Append(list, residualnorm)
        \* residualnorm_list[a:b], summed (b - a = const on both sides).
        wsum(a, b) == FSumTo([i \in 0 .. (b - a - 1) |-> list2[a + i + 1]], b - a)
        plateau == /\ itn >= 2 * const
                   /\ itn % const = 0
                   /\ FLe(wsum(itn - 2 * const, itn - const), wsum(itn - const, itn))
    IN  IF FLt(residualnorm, tol) \/ plateau \/ itn + 1 >= maxiter
        THEN [itn |-> itn, list |-> list2]
        ELSE cg_loop_plateau_le(itn + 1, list2, maxiter, tol, poisoned, zerograd, o)

RECURSIVE cg_loop(_, _, _, _, _, _, _)
\* The for loop of cg from iteration itn on (lines 385-422): the list of all
\* residual norms recorded and the value of itn when the loop is left.
cg_loop(itn, list, maxiter, tol, poisoned, zerograd, o) ==
    LET const == 2 + (maxiter \div 5)
        residualnorm == cg_residualnorm(itn, list, poisoned, zerograd, o)
        list2 == Append(list, residualnorm)
        \* residualnorm_list[a:b], summed (b - a = const on both sides).
        wsum(a, b) == FSumTo([i \in 0 .. (b - a - 1) |-> list2[a + i + 1]], b - a)
        plateau == /\ itn >= 2 * const
                   /\ itn % const = 0
                   /\ FLt(wsum(itn - 2 * const, itn - const), wsum(itn - const, itn))
    IN  IF FLt(residualnorm, tol) \/ plateau \/ itn + 1 >= maxiter
        THEN [itn |-> itn, list |-> list2]
        ELSE cg_loop(itn + 1, list2, maxiter, tol, poisoned, zerograd, o)

\* Variant of cg_cap: the budget is taken as it comes.
cg_cap_none(maxiter, dof) == maxiter

\* Line 344: maxiter = min(maxiter, R * (m + n + p)); dof is R * (m + n + p).
cg_cap(maxiter, dof) == MinInt(maxiter, dof)

\* cg(X, Y, Z, data, y, b, m, n, p, R, damp, maxiter, tol): the results the
\* call can return, one for every draw o of draws (o.s the step, o.rn the
\* residual norms).  With maxiter < 1 the loop body never runs and
\* `return ... itn + 1` has no itn to read.
cg(Xc, Yc, Zc, b, damp, cg_maxiter, tol, draws) ==
    LET maxiter == cg_cap(cg_maxiter, R * (m + n + p))
        L == regularization(Xc, Yc, Zc)
        M == precond(Xc, Yc, Zc, L, damp)
        grad == rmatvec(b, Xc, Yc, Zc)
        poisoned == \E s \in 0 .. (VLen - 1) :
                        M[s].k # "rsqrt" \/ ~IsFin(grad[s]) \/ ~IsFin(L[s])
        zerograd == \A s \in 0 .. (VLen - 1) : grad[s] = Zero
        result(o) ==
            LET run == cg_loop(0, <<>>, maxiter, tol, poisoned, zerograd, o)
                anynan == \E i \in 1 .. Len(run.list) : IsNaN(run.list[i])
            IN  [status |-> "ok",
                 y |-> IF anynan THEN ConstVec(NaN)
                       ELSE IF zerograd THEN ConstVec(Zero)
                       ELSE ConstVec(Fin(o.s)),
                 grad |-> grad,
                 itn |-> run.itn + 1,
                 residualnorm |-> run.list[Len(run.list)],
                 maxiter |-> maxiter,
                 cg_maxiter |-> cg_maxiter,
                 residualnorm_list |-> run.list]
    IN  IF maxiter < 1
        THEN {[status |-> "NameError", y |-> ConstVec(Zero), grad |-> grad, itn |-> 0,
               residualnorm |-> Zero, maxiter |-> maxiter, cg_maxiter |-> cg_maxiter,
               residualnorm_list |-> <<>>]}
        ELSE {result(o) : o \in draws}

\* floor(it^(a/b)): the largest k with k^b <= it^a.
RECURSIVE Pow(_, _)
Pow(a, e) == IF e = 0 THEN 1 ELSE a * Pow(a, e - 1)
FloorRoot(it, a, b) == CHOOSE k \in 0 .. it : Pow(k, b) <= Pow(it, a) /\ Pow(k + 1, b) > Pow(it, a)

\* The values randint(1 + it**0.4, 2 + it**0.9) can return: the integers from
\* int(low) up to int(high) - 1.
randint_values(it) == (1 + FloorRoot(it, 2, 5)) .. (2 + FloorRoot(it, 9, 10) - 1)

\* Variant of compute_step: a method name it does not know is run as CG.
compute_step_any_name(Xc, Yc, Zc, res, damp, method_info, it, rnd, draws) ==
    IF Len(method_info) # 4
    THEN {[status |-> "ValueError"]}
    ELSE cg(Xc, Yc, Zc, Array([s \in DOMAIN res |-> FNeg(res[s])]), damp,
            method_info[2], method_info[4], draws)

\* Variant of compute_step: 'cg_static' draws its budget like 'cg'.
compute_step_static_drawn(Xc, Yc, Zc, res, damp, method_info, it, rnd, draws) ==
    IF Len(method_info) # 4
    THEN {[status |-> "ValueError"]}
    ELSE IF method_info[1] # "cg" /\ method_info[1] # "cg_static"
         THEN {[status |-> "sys.exit"]}
         ELSE cg(Xc, Yc, Zc, Array([s \in DOMAIN res |-> FNeg(res[s])]), damp,
                 1 + method_info[3] * rnd, method_info[4], draws)

\* compute_step(X, Y, Z, data, y, res, m, n, p, R, damp, method_info, it):
\* rnd is the value randint returned (read by method 'cg' only); the results
\* the call can have are returned, cg's for the draws or the exception raised.
compute_step(Xc, Yc, Zc, res, damp, method_info, it, rnd, draws) ==
    IF Len(method_info) # 4
    THEN {[status |-> "ValueError"]}
    ELSE LET method == method_info[1]
             cg_factor == method_info[3]
             cg_tol == method_info[4]
             cg_maxiter == IF method = "cg" THEN 1 + cg_factor * rnd ELSE method_info[2]
         IN  IF method # "cg" /\ method # "cg_static"
             THEN {[status |-> "sys.exit"]}
             ELSE cg(Xc, Yc, Zc, Array([s \in DOMAIN res |-> FNeg(res[s])]), damp,
                     cg_maxiter, cg_tol, draws)

\* Variant of update_damp: a low gain ratio takes damp away altogether.
update_damp_to_zero(damp, old_error, error, residualnorm) ==
    LET num == FMul(Fin(2), FSub(old_error, error))
        den == FSub(old_error, residualnorm)
        isnan == \/ IsNaN(num) \/ IsNaN(den)
                 \/ (IsInf(num) /\ IsInf(den))
                 \/ (IsFin(num) /\ IsFin(den) /\ num.v = 0 /\ den.v = 0)
        \* sign of the denominator; x - x is +0.0
        sden == IF den.v < 0 THEN -1 ELSE 1
        infinite == ~isnan /\ (IsInf(num) \/ (IsFin(den) /\ den.v = 0))
        zero == ~isnan /\ IsFin(num) /\ IsInf(den)
        lt075 == IF isnan THEN FALSE
                 ELSE IF infinite THEN Sgn(num.v) * sden < 0
                 ELSE IF zero THEN TRUE
                 ELSE 4 * num.v * sden < 3 * AbsInt(den.v)
        gt09 == IF isnan THEN FALSE
                ELSE IF infinite THEN Sgn(num.v) * sden > 0
                ELSE IF zero THEN FALSE
                ELSE 10 * num.v * sden > 9 * AbsInt(den.v)
    IN  IF lt075 THEN [num |-> 0, den |-> damp.den]
        ELSE IF gt09 THEN [num |-> 3 * damp.num, den |-> 2 * damp.den]
        ELSE damp

\* Variant of update_damp: the upper threshold is 0.75 like the lower one.
update_damp_one_threshold(damp, old_error, error, residualnorm) ==
    LET num == FMul(Fin(2), FSub(old_error, error))
        den == FSub(old_error, residualnorm)
        isnan == \/ IsNaN(num) \/ IsNaN(den)
                 \/ (IsInf(num) /\ IsInf(den))
                 \/ (IsFin(num) /\ IsFin(den) /\ num.v = 0 /\ den.v = 0)
        \* sign of the denominator; x - x is +0.0
        sden == IF den.v < 0 THEN -1 ELSE 1
        infinite == ~isnan /\ (IsInf(num) \/ (IsFin(den) /\ den.v = 0))
        zero == ~isnan /\ IsFin(num) /\ IsInf(den)
        lt075 == IF isnan THEN FALSE
                 ELSE IF infinite THEN Sgn(num.v) * sden < 0
                 ELSE IF zero THEN TRUE
                 ELSE 4 * num.v * sden < 3 * AbsInt(den.v)
        gt09 == IF isnan THEN FALSE
                ELSE IF infinite THEN Sgn(num.v) * sden > 0
                ELSE IF zero THEN FALSE
                ELSE 4 * num.v * sden > 3 * AbsInt(den.v)
    IN  IF lt075 THEN [num |-> damp.num, den |-> 2 * damp.den]
        ELSE IF gt09 THEN [num |-> 3 * damp.num, den |-> 2 * damp.den]
        ELSE damp

\* update_damp(damp, old_error, error, residualnorm).  The gain ratio is a
\* quotient of floats: it is NaN for 0/0 and inf/inf, and an infinity for x/0.
update_damp(damp, old_error, error, residualnorm) ==
    LET num == FMul(Fin(2), FSub(old_error, error))
        den == FSub(old_error, residualnorm)
        isnan == \/ IsNaN(num) \/ IsNaN(den)
                 \/ (IsInf(num) /\ IsInf(den))
                 \/ (IsFin(num) /\ IsFin(den) /\ num.v = 0 /\ den.v = 0)
        \* sign of the denominator; x - x is +0.0
        sden == IF den.v < 0 THEN -1 ELSE 1
        infinite == ~isnan /\ (IsInf(num) \/ (IsFin(den) /\ den.v = 0))
        zero == ~isnan /\ IsFin(num) /\ IsInf(den)
        lt075 == IF isnan THEN FALSE
                 ELSE IF infinite THEN Sgn(num.v) * sden < 0
                 ELSE IF zero THEN TRUE
                 ELSE 4 * num.v * sden < 3 * AbsInt(den.v)
        gt09 == IF isnan THEN FALSE
                ELSE IF infinite THEN Sgn(num.v) * sden > 0
                ELSE IF zero THEN FALSE
                ELSE 10 * num.v * sden > 9 * AbsInt(den.v)
    IN  IF lt075 THEN [num |-> damp.num, den |-> 2 * damp.den]
        ELSE IF gt09 THEN [num |-> 3 * damp.num, den |-> 2 * damp.den]
        ELSE damp

\* ------------------------------------------------------------------ dGN
VARIABLES
    T, options, fix_mode,           \* the inputs; fix_mode as dGN derives it
    X_orig, Y_orig, Z_orig,         \* the copy of the fixed factor (bi mode)
    method_info,
    Tsize, const,
    X, Y, Z, x, y, res, T_approx,
    error, old_error, old_x,
    best_error, best_X, best_Y, best_Z,
    damp, stop, it,
    step_sizes, errors, improv, gradients,
    grad, itn, residualnorm,
    cg_maxiter, residualnorm_list,  \* the last cg call: its budget, its list
    path,                           \* history: the factors after each iteration
    pc,                             \* where the call stands
    ret,                            \* what dGN returned
    \* ---- the callees called on their own
    data,                           \* the buffers of prepare_data
    heap, P, residual_cg,           \* cg: its arrays, and the names bound to them
    z, alpha, beta, MAM,            \* cg: z, alpha, beta; the operator behind z
    u, aux1, aux2, aux3, result,    \* rmatvec: its input and its arrays
    at,                             \* rmatvec: where each iteration of prange(R) stands
    args, stdout                    \* Auxiliar: the arguments of a call, the lines printed

vars == <<T, options, fix_mode, X_orig, Y_orig, Z_orig, method_info, Tsize, const,
          X, Y, Z, x, y, res, T_approx, error, old_error, old_x,
          best_error, best_X, best_Y, best_Z, damp, stop, it,
          step_sizes, errors, improv, gradients, grad, itn, residualnorm,
          cg_maxiter, residualnorm_list, path, pc, ret,
          data, heap, P, residual_cg, z, alpha, beta, MAM,
          u, aux1, aux2, aux3, result, at, args, stdout>>

\* The names of the callees called on their own; dGN as a whole and the
\* calls of update_damp and of the loop of cg leave them unbound.
CalleeVars ==
    <<data, heap, P, residual_cg, z, alpha, beta, MAM,
      u, aux1, aux2, aux3, result, at, args, stdout>>

\* A name that is not bound (yet): an array, and a float.
Unbound == <<>>
UnboundF == [k |-> "unbound", v |-> 0]
NoCallee ==
    /\ data = Unbound /\ heap = Unbound /\ P = Unbound /\ residual_cg = Unbound
    /\ z = Unbound /\ alpha = Unbound /\ beta = Unbound /\ MAM = Unbound
    /\ u = Unbound /\ aux1 = Unbound /\ aux2 = Unbound /\ aux3 = Unbound
    /\ result = Unbound /\ at = Unbound /\ args = Unbound /\ stdout = Unbound

\* ---- the inputs drawn
ConstMat(d, a) == Array([ir \in Rows(d) \X Cols |-> Fin(a)])
\* T is the rank-R tensor whose three factors have all entries a.
TrueEntries == {0, 1}
\* Initial factors: all entries v.
InitEntries == {-1, 0, 1, 2}
TolValues == {1, 2 * Unit}
\* <<tol_step, tol_improv, tol_grad>>
StopTols == {<<0, 0, 0>>, <<1, 0, 0>>, <<0, 1, 0>>, <<0, 0, 1>>, <<1, 1, 1>>}
\* [method, cg_maxiter, cg_factor, cg_tol] as dGN builds it from the options.
CgInfos == {<<"cg", 1, 1, Fin(1)>>, <<"cg_static", 2, 1, Fin(1)>>}
\* Every method name, and a CG run with cg_tol = 0.
MethodInfos ==
    CgInfos \cup {<<"als", 500, 1, Fin(1)>>, <<"bogus", 1, 1, Fin(1)>>,
                  <<"cg_static", 3, 1, Fin(0)>>}
\* options.bi_method_parameters: the default of make_options, and a list of
\* the four entries compute_step unpacks.
DefaultBi == <<"als", 500, Fin(1)>>
BiMethodParameters == {DefaultBi, <<"cg_static", 2, 1, Fin(1)>>}
\* Residual norms and steps drawn for cg.
RNValues == {Fin(0), Fin(Unit)}
StepValues == {-1, 0, 1}

\* The fields of options that dGN reads; constraints = [0, 0, .]: no box.
OptionsOf(maxiter, tol, st, mi, bi) ==
    [maxiter |-> maxiter, tol |-> tol, tol_step |-> st[1], tol_improv |-> st[2],
     tol_grad |-> st[3], init_damp |-> 1, method_info |-> mi,
     bi_method_parameters |-> bi, constraints |-> <<0, 0>>]

\* The calls: [a, v, fm, opt] is the call with T made of a, initial
\* factors made of v, the factor fm wrapped in a list (-1: none) and options opt.
Inputs ==
    \* all three factors free, the two CG methods, every tolerance drawn
    {[a |-> 1, v |-> 2, fm |-> -1, opt |-> OptionsOf(k, tol, st, mi, DefaultBi)] :
        k \in 1 .. MaxIter, tol \in TolValues, st \in StopTols, mi \in CgInfos}
    \cup
    \* every method name, tensor and starting point
    {[a |-> a, v |-> v, fm |-> -1, opt |-> OptionsOf(k, 1, <<0, 0, 0>>, mi, DefaultBi)] :
        a \in TrueEntries, v \in InitEntries, k \in 1 .. MaxIter, mi \in MethodInfos}
    \cup
    \* one factor held fixed
    {[a |-> 1, v |-> 2, fm |-> fm,
      opt |-> OptionsOf(k, tol, st, <<"cg", 1, 1, Fin(1)>>, bi)] :
        fm \in {0, 1, 2}, k \in 1 .. MaxIter, tol \in TolValues,
        st \in {<<0, 0, 0>>, <<1, 1, 1>>}, bi \in BiMethodParameters}

\* numpy.mean(numpy.abs(T)) * init_damp, exactly.
InitialDamp(Tc, init_damp) ==
    [num |-> init_damp * FSumTo([s \in 0 .. (m * n * p - 1) |-> FAbs(ravel(Tc)[s])], m * n * p).v,
     den |-> m * n * p]

EmptyArray(len) == [i \in 0 .. (len - 1) |-> Uninit]

\* dGN, lines 75-130: the state when the for loop is reached.
Init ==
    \E call \in Inputs :
        /\ T = cpd2tens(ConstMat(m, call.a), ConstMat(n, call.a), ConstMat(p, call.a))
        /\ options = call.opt
        /\ fix_mode = call.fm
        /\ X_orig = IF call.fm = 0 THEN ConstMat(m, call.v) ELSE Unbound
        /\ Y_orig = IF call.fm = 1 THEN ConstMat(n, call.v) ELSE Unbound
        /\ Z_orig = IF call.fm = 2 THEN ConstMat(p, call.v) ELSE Unbound
        /\ method_info = IF call.fm = -1 THEN call.opt.method_info
                         ELSE call.opt.bi_method_parameters
        /\ Tsize = tensor_norm(T)
        /\ const = 1 + (call.opt.maxiter \div 10)
        /\ X = ConstMat(m, call.v)
        /\ Y = ConstMat(n, call.v)
        /\ Z = ConstMat(p, call.v)
        /\ x = flatten_concat(X, Y, Z)
        /\ y = ConstVec(Zero)
        /\ res = [s \in 0 .. (m * n * p - 1) |-> Uninit]
        /\ T_approx = cpd2tens(X, Y, Z)
        /\ error = Fin(Unit)
        /\ old_error = UnboundF
        /\ old_x = Unbound
        /\ best_error = PInf
        /\ best_X = Unbound
        /\ best_Y = Unbound
        /\ best_Z = Unbound
        /\ damp = InitialDamp(T, call.opt.init_damp)
        /\ stop = 5
        /\ it = -1
        /\ step_sizes = EmptyArray(call.opt.maxiter)
        /\ errors = EmptyArray(call.opt.maxiter)
        /\ improv = EmptyArray(call.opt.maxiter)
        /\ gradients = EmptyArray(call.opt.maxiter)
        /\ grad = Unbound
        /\ itn = 0
        /\ residualnorm = UnboundF
        /\ cg_maxiter = 0
        /\ residualnorm_list = <<>>
        /\ path = <<>>
        /\ pc = "loop"
        /\ ret = Unbound
        /\ NoCallee

\* ---- the stopping conditions of lines 230-253, at iteration i, on the arrays
\* as they are after line 205.
Cond0(errs, i) == FLt(errs[i], Fin(options.tol))
Cond1(steps, i) == FLt(steps[i], Fin(options.tol_step))
Cond2(impr, i) == FLt(impr[i], Fin(options.tol_improv))
Cond3(grads, i) == FLt(grads[i], Fin(options.tol_grad))
\* mean(errors[a:b]) * (b - a)
ErrSum(errs, a, b) == FSumTo([j \in 0 .. (b - a - 1) |-> errs[a + j]], b - a)
\* Variant of Cond4: the windows are compared from iteration 2*const on, at
\* every iteration.
Cond4_every_iteration(errs, i) ==
    /\ i >= 2 * const
    /\ FLe(FSub(ErrSum(errs, i - 2 * const, i - const), ErrSum(errs, i - const, i)),
           Fin(const * options.tol_improv))
Cond4(errs, i) ==
    /\ i > 2 * const
    /\ i % const = 0
    /\ FLe(FSub(ErrSum(errs, i - 2 * const, i - const), ErrSum(errs, i - const, i)),
           Fin(const * options.tol_improv))
\* error > max(1, Tsize ** 2) / tol, for tol > 0: both sides times Unit * tol.
Cond6(err) ==
    IF IsFin(err)
    THEN err.v * options.tol > MaxInt(Unit * Unit, IF IsFin(Tsize) THEN Tsize.v * Tsize.v ELSE 0)
    ELSE IsInf(err) /\ err.v > 0

\* Variant of stop_check: the divergence test comes first.
stop_check_6_first(i, errs, steps, impr, grads, err) ==
    IF ~(i > 1) THEN 5
    ELSE IF Cond6(err) THEN 6
    ELSE IF Cond0(errs, i) THEN 0
    ELSE IF Cond1(steps, i) THEN 1
    ELSE IF Cond2(impr, i) THEN 2
    ELSE IF Cond3(grads, i) THEN 3
    ELSE IF Cond4(errs, i) THEN 4
    ELSE 5

\* Variant of stop_check: the tests start at iteration 1.
stop_check_from_1(i, errs, steps, impr, grads, err) ==
    IF ~(i > 0) THEN 5
    ELSE IF Cond0(errs, i) THEN 0
    ELSE IF Cond1(steps, i) THEN 1
    ELSE IF Cond2(impr, i) THEN 2
    ELSE IF Cond3(grads, i) THEN 3
    ELSE IF Cond4(errs, i) THEN 4
    ELSE IF Cond6(err) THEN 6
    ELSE 5

\* Variant of stop_check: the gradient test is left out.
stop_check_no_3(i, errs, steps, impr, grads, err) ==
    IF ~(i > 1) THEN 5
    ELSE IF Cond0(errs, i) THEN 0
    ELSE IF Cond1(steps, i) THEN 1
    ELSE IF Cond2(impr, i) THEN 2
    ELSE IF Cond4(errs, i) THEN 4
    ELSE IF Cond6(err) THEN 6
    ELSE 5

\* Lines 228-253: the value of stop after them; 5 (its initial value) when no
\* break is taken.
stop_check(i, errs, steps, impr, grads, err) ==
    IF ~(i > 1) THEN 5
    ELSE IF Cond0(errs, i) THEN 0
    ELSE IF Cond1(steps, i) THEN 1
    ELSE IF Cond2(impr, i) THEN 2
    ELSE IF Cond3(grads, i) THEN 3
    ELSE IF Cond4(errs, i) THEN 4
    ELSE IF Cond6(err) THEN 6
    ELSE 5

\* Variant of restore_fixed: nothing is put back.
restore_fixed_none(F) == F

\* Lines 177-182: the fixed factor is put back.
restore_fixed(F) ==
    [X |-> IF fix_mode = 0 THEN X_orig ELSE F.X,
     Y |-> IF fix_mode = 1 THEN Y_orig ELSE F.Y,
     Z |-> IF fix_mode = 2 THEN Z_orig ELSE F.Z]

\* Variants of is_better: every error, only a worse one, only the first one.
is_better_always(err, best) == TRUE
is_better_if_worse(err, best) == IsInf(best) \/ FGt(err, best)
is_better_first(err, best) == IsInf(best)

\* Lines 185-186: norm(T - T_approx) / Tsize.
rel_error(Tc, Ta, Ts) ==
    FDiv(tensor_norm([ijk \in Idx3 |-> FSub(Tc[ijk], Ta[ijk])]), Ts)

\* Lines 188-193: is the new error the best one?
is_better(err, best) == FLt(err, best)

\* The steps cg may be drawn to return: they keep x within the bound.
StepsAllowed ==
    {s \in StepValues :
        \A i \in 0 .. (VLen - 1) : IsFin(x[i]) => AbsInt(x[i].v + s) <= MaxEntry}
Draws == [s : StepsAllowed, rn : {[i \in 0 .. (VLen - 1) |-> a] : a \in RNValues}]

\* One pass through the body of `for it in range(maxiter)`, lines 154-253.
\* Each value the body computes is bound once (\E over a singleton).
Iterate ==
    /\ pc = "loop"
    /\ it + 1 < options.maxiter
    /\ \E rnd \in IF method_info[1] = "cg" THEN randint_values(it + 1) ELSE {0} :
       \E i \in {it + 1} :
       \E res1 \in {residual(res, T, T_approx)} :
       \E cs \in compute_step(X, Y, Z, res1, damp, method_info, i, rnd, Draws) :
            /\ it' = i
            /\ res' = res1
            /\ old_x' = x
            /\ old_error' = error
            /\ IF cs.status # "ok"
               THEN /\ pc' = cs.status
                    /\ UNCHANGED <<X, Y, Z, x, y, T_approx, error, best_error, best_X,
                                   best_Y, best_Z, damp, stop, step_sizes, errors, improv,
                                   gradients, grad, itn, residualnorm, cg_maxiter,
                                   residualnorm_list, path>>
               ELSE \E x1 \in {Array([s \in 0 .. (VLen - 1) |-> FAdd(x[s], cs.y[s])])} :
                    \E F \in {restore_fixed(transform(x2cpd(x1), options.constraints[1],
                                                      options.constraints[2]))} :
                    \E T_approx1 \in {cpd2tens(F.X, F.Y, F.Z)} :
                    \E error1 \in {rel_error(T, T_approx1, Tsize)} :
                    \E better \in {is_better(error1, best_error)} :
                    \E errors1 \in {[errors EXCEPT ![i] = error1]} :
                    \E step_sizes1 \in {[step_sizes EXCEPT
                                           ![i] = norm([s \in 0 .. (VLen - 1) |->
                                                           FSub(x1[s], x[s])], VLen)]} :
                    \E gradients1 \in {[gradients EXCEPT ![i] = norm_inf(cs.grad, VLen)]} :
                    \E improv1 \in {[improv EXCEPT
                                       ![i] = IF i = 0 THEN errors1[i]
                                              ELSE FAbs(FSub(errors1[i - 1], errors1[i]))]} :
                    \E stop1 \in {stop_check(i, errors1, step_sizes1, improv1, gradients1,
                                             error1)} :
                        /\ y' = cs.y
                        /\ grad' = cs.grad
                        /\ itn' = cs.itn
                        /\ residualnorm' = cs.residualnorm
                        /\ cg_maxiter' = cs.cg_maxiter
                        /\ residualnorm_list' = cs.residualnorm_list
                        /\ x' = x1
                        /\ X' = F.X
                        /\ Y' = F.Y
                        /\ Z' = F.Z
                        /\ T_approx' = T_approx1
                        /\ error' = error1
                        /\ best_error' = IF better THEN error1 ELSE best_error
                        /\ best_X' = IF better THEN F.X ELSE best_X
                        /\ best_Y' = IF better THEN F.Y ELSE best_Y
                        /\ best_Z' = IF better THEN F.Z ELSE best_Z
                        /\ damp' = update_damp(damp, error, error1, cs.residualnorm)
                        /\ errors' = errors1
                        /\ step_sizes' = step_sizes1
                        /\ gradients' = gradients1
                        /\ improv' = improv1
                        /\ stop' = stop1
                        /\ path' = Append(path, F)
                        /\ pc' = IF stop1 # 5 \/ i + 1 >= options.maxiter THEN "exit" ELSE "loop"
    /\ UNCHANGED <<T, options, fix_mode, X_orig, Y_orig, Z_orig, method_info, Tsize, const, ret>>
    /\ UNCHANGED CalleeVars

\* Variant of Truncate: the array is returned whole.
Truncate_none(a, cnt) == a

\* array[0:cnt]
Truncate(a, cnt) == [i \in 0 .. (cnt - 1) |-> a[i]]

\* Lines 257-262: the arrays are cut to it + 1 entries and the best factors
\* are returned; best_X is not bound if no error was ever below inf.
Return ==
    /\ pc = "exit"
    /\ errors' = Truncate(errors, it + 1)
    /\ step_sizes' = Truncate(step_sizes, it + 1)
    /\ improv' = Truncate(improv, it + 1)
    /\ gradients' = Truncate(gradients, it + 1)
    /\ IF best_X = Unbound
       THEN pc' = "UnboundLocalError" /\ ret' = ret
       ELSE /\ pc' = "returned"
            /\ ret' = [X |-> best_X, Y |-> best_Y, Z |-> best_Z,
                       step_sizes |-> step_sizes', errors |-> errors',
                       improv |-> improv', gradients |-> gradients', stop |-> stop]
    /\ UNCHANGED <<T, options, fix_mode, X_orig, Y_orig, Z_orig, method_info, Tsize, const,
                   X, Y, Z, x, y, res, T_approx, error, old_error, old_x,
                   best_error, best_X, best_Y, best_Z, damp, stop, it,
                   grad, itn, residualnorm, cg_maxiter, residualnorm_list, path>>
    /\ UNCHANGED CalleeVars

Next == Iterate \/ Return

Spec == Init /\ [][Next]_vars

\* ---- update_damp and cg called on their own
\* The calls dGN makes reach few of the cases of update_damp and none of the
\* long runs of cg.  Here each is called once on arguments drawn from bounded
\* sets; the names dGN does not hand to the callee are left unbound.
NotInCall ==
    /\ T = Unbound /\ options = Unbound /\ fix_mode = -1
    /\ X_orig = Unbound /\ Y_orig = Unbound /\ Z_orig = Unbound
    /\ Tsize = UnboundF /\ const = 0
    /\ X = Unbound /\ Y = Unbound /\ Z = Unbound /\ x = Unbound /\ y = Unbound
    /\ res = Unbound /\ T_approx = Unbound /\ old_x = Unbound
    /\ best_error = UnboundF /\ best_X = Unbound /\ best_Y = Unbound /\ best_Z = Unbound
    /\ stop = 5 /\ it = -1
    /\ step_sizes = Unbound /\ errors = Unbound /\ improv = Unbound /\ gradients = Unbound
    /\ grad = Unbound /\ path = <<>> /\ ret = Unbound
    /\ NoCallee
NotInCallVars ==
    <<T, options, fix_mode, X_orig, Y_orig, Z_orig, Tsize, const, X, Y, Z, x, y, res,
      T_approx, old_x, best_error, best_X, best_Y, best_Z, stop, it, step_sizes, errors,
      improv, gradients, grad, path, ret,
      data, heap, P, residual_cg, z, alpha, beta, MAM,
      u, aux1, aux2, aux3, result, at, args, stdout>>

\* update_damp(damp, old_error, error, residualnorm), line 196.
DampValues == {[num |-> 1, den |-> 1], [num |-> 3, den |-> 8]}
ErrValues == {Fin(v) : v \in 0 .. MaxErr}
DampInit ==
    /\ NotInCall
    /\ method_info = Unbound /\ itn = 0 /\ cg_maxiter = 0 /\ residualnorm_list = <<>>
    /\ damp \in DampValues
    /\ old_error \in ErrValues
    /\ error \in ErrValues
    /\ residualnorm \in ErrValues
    /\ pc = "update_damp"
DampCall ==
    /\ pc = "update_damp"
    /\ damp' = update_damp(damp, old_error, error, residualnorm)
    /\ pc' = "update_damp returned"
    /\ UNCHANGED NotInCallVars
    /\ UNCHANGED <<method_info, itn, cg_maxiter, residualnorm_list, old_error, error,
                   residualnorm>>

\* cg(..., m, n, p, R, damp, maxiter, tol) with R * (m + n + p) = CgDof, a
\* gradient that is not zero and a finite preconditioner: the budget and the
\* tolerance are drawn, and so is the residual norm of every iteration.
CgBudgets == {1, 2, CgDof, CgDof + 1}
CgTols == {Fin(1)}
CgRNValues == {Fin(0), Fin(1), Fin(2)}
\* The residual norms of iterations 0 .. k-1: every sequence over CgRNValues
\* up to the first 0; past it (cg has left its loop there, 0 being below
\* every tolerance of CgTols) the entries are 0.
RECURSIVE RnSeqs(_)
RnSeqs(k) ==
    IF k = 0 THEN {<<>>}
    ELSE {Append(q, v) : q \in RnSeqs(k - 1), v \in CgRNValues} \cap
         {q \in Seq(CgRNValues) : \A i \in 1 .. (Len(q) - 1) : q[i] = Zero => q[i + 1] = Zero}
CgDraws == {[s |-> 0, rn |-> [i \in 0 .. CgDof |-> q[i + 1]]] : q \in RnSeqs(CgDof + 1)}
CgInit ==
    /\ NotInCall
    /\ damp = [num |-> 1, den |-> 1]
    /\ old_error = UnboundF /\ error = UnboundF
    /\ cg_maxiter \in CgBudgets
    /\ method_info \in {<<"cg_static", cg_maxiter, 1, tol>> : tol \in CgTols}
    /\ itn = 0 /\ residualnorm = UnboundF /\ residualnorm_list = <<>>
    /\ pc = "cg"
CgCall ==
    /\ pc = "cg"
    /\ \E o \in CgDraws :
       \E run \in {cg_loop(0, <<>>, cg_cap(cg_maxiter, CgDof), method_info[4],
                            FALSE, FALSE, o)} :
            /\ residualnorm_list' = run.list
            /\ itn' = run.itn + 1
            /\ residualnorm' = run.list[Len(run.list)]
    /\ pc' = "cg returned"
    /\ UNCHANGED NotInCallVars
    /\ UNCHANGED <<method_info, cg_maxiter, damp, old_error, error>>

\* dGN as a whole, and the two callees on their own.
InitCalls == Init \/ DampInit \/ CgInit
NextCalls == Iterate \/ Return \/ DampCall \/ CgCall
SpecCalls == InitCalls /\ [][NextCalls]_vars

\* ---- cg: the recurrences on the vectors
\* Exact fractions num/den (den > 0, lowest terms): the values of alpha, beta
\* and the entries of the vectors of cg.
RECURSIVE Gcd(_, _)
Gcd(a, b) == IF b = 0 THEN a ELSE Gcd(b, a % b)
Rat(a, b) ==
    LET g == Gcd(AbsInt(a), AbsInt(b))
        sg == IF b < 0 THEN -1 ELSE 1
    IN  [num |-> (sg * a) \div g, den |-> (sg * b) \div g]
RInt(a) == [num |-> a, den |-> 1]
\* Sums over the least common denominator, products cancelled crosswise
\* before they are multiplied.
RAdd(a, b) ==
    LET g == Gcd(a.den, b.den)
    IN  Rat(a.num * (b.den \div g) + b.num * (a.den \div g), (a.den \div g) * b.den)
RNeg(a) == [num |-> -a.num, den |-> a.den]
RSub(a, b) == RAdd(a, RNeg(b))
RMul(a, b) ==
    LET g1 == Gcd(AbsInt(a.num), b.den)
        g2 == Gcd(AbsInt(b.num), a.den)
    IN  Rat((a.num \div g1) * (b.num \div g2), (a.den \div g2) * (b.den \div g1))
\* a / b, b # 0
RDiv(a, b) ==
    RMul(a, IF b.num < 0 THEN [num |-> -b.den, den |-> -b.num]
            ELSE [num |-> b.den, den |-> b.num])
RLt(a, b) == a.num * b.den < b.num * a.den
\* The literal 1e-6 of lines 382 and 404.
Tiny == Rat(1, 1000000)

RECURSIVE RSumTo(_, _)
\* f[1] + ... + f[cnt]
RSumTo(f, cnt) == IF cnt = 0 THEN RInt(0) ELSE RAdd(RSumTo(f, cnt - 1), f[cnt])
\* Vectors of fractions, indexed from 1: a + b, c * a, dot(a, b), norm(a)**2.
RVAdd(a, b) == [i \in DOMAIN a |-> RAdd(a[i], b[i])]
RVScale(c, a) == [i \in DOMAIN a |-> RMul(c, a[i])]
RVSub(a, b) == RVAdd(a, RVScale(RInt(-1), b))
RDot(a, b) == RSumTo([i \in DOMAIN a |-> RMul(a[i], b[i])], Len(a))
\* The product of a matrix of integers (a tuple of rows) with a vector.
RMatVec(Mx, a) ==
    [i \in DOMAIN a |-> RSumTo([j \in DOMAIN a |-> RMul(RInt(Mx[i][j]), a[j])], Len(a))]

\* cg from line 374 on, for a system drawn instead of computed from X, Y, Z:
\* MAM is the matrix of v |-> M * (matvec(M * v) + damp * L * (M * v)),
\* symmetric and positive definite, and r0 is M * grad, not zero.  An array
\* is an entry of heap; residual_cg and P are names bound to entries of heap,
\* so that two names bound to one array see each other's in-place updates.
Systems ==
    {<<<<1, 0>>, <<0, 1>>>>, <<<<1, 0>>, <<0, 2>>>>, <<<<2, 1>>, <<1, 2>>>>}
Residuals0 ==
    {<<RInt(a), RInt(b)>> : a, b \in {-1, 0, 1, 2}} \ {<<RInt(0), RInt(0)>>}
SolveBudgets == {1, 2, 3}
\* tol > 0: a residual that is exactly zero ends the loop.
SolveTols == {Rat(1, 10), Rat(1, 2)}

\* Lines 374-383: y = 0 * y, residual_cg = M * grad, P = residual_cg (the
\* same array under a second name), residualnorm, the empty list.  itn is
\* the index of the last iteration run, -1 before the first.
SolveInit ==
    /\ T = Unbound /\ options = Unbound /\ fix_mode = -1
    /\ X_orig = Unbound /\ Y_orig = Unbound /\ Z_orig = Unbound
    /\ Tsize = UnboundF
    /\ X = Unbound /\ Y = Unbound /\ Z = Unbound /\ x = Unbound
    /\ res = Unbound /\ T_approx = Unbound /\ old_x = Unbound
    /\ error = UnboundF /\ old_error = UnboundF
    /\ best_error = UnboundF /\ best_X = Unbound /\ best_Y = Unbound /\ best_Z = Unbound
    /\ damp = [num |-> 1, den |-> 1]
    /\ stop = 5 /\ it = -1
    /\ step_sizes = Unbound /\ errors = Unbound /\ improv = Unbound /\ gradients = Unbound
    /\ grad = Unbound /\ path = <<>> /\ ret = Unbound
    /\ data = Unbound /\ u = Unbound /\ aux1 = Unbound /\ aux2 = Unbound /\ aux3 = Unbound
    /\ result = Unbound /\ at = Unbound /\ args = Unbound /\ stdout = Unbound
    /\ MAM \in Systems
    /\ \E r0 \in Residuals0 :
           /\ heap = <<r0>>
           /\ residualnorm = (IF RDot(r0, r0) = RInt(0) THEN Tiny ELSE RDot(r0, r0))
    /\ residual_cg = 1
    /\ P = residual_cg
    /\ y = <<RInt(0), RInt(0)>>
    /\ z = Unbound /\ alpha = Unbound /\ beta = Unbound
    /\ cg_maxiter \in SolveBudgets
    /\ method_info \in {<<"cg_static", cg_maxiter, 1, tol>> : tol \in SolveTols}
    /\ const = 2 + (cg_cap(cg_maxiter, Len(heap[1])) \div 5)
    /\ itn = -1
    /\ residualnorm_list = <<>>
    /\ pc = "cg for"

\* The names of SolveInit that no statement of the loop of cg assigns.
SolveFrame ==
    <<T, options, fix_mode, X_orig, Y_orig, Z_orig, Tsize, X, Y, Z, x, res, T_approx,
      old_x, error, old_error, best_error, best_X, best_Y, best_Z, damp, stop, it,
      step_sizes, errors, improv, gradients, grad, path,
      data, u, aux1, aux2, aux3, result, at, args, stdout,
      MAM, cg_maxiter, method_info, const>>

\* mean(residualnorm_list[a:b]) * (b - a), positions counted from 0.
RWindowSum(list, a, b) == RSumTo([i \in 1 .. (b - a) |-> list[a + i]], b - a)

\* One pass through the body of `for itn in range(maxiter)`, lines 386-422.
SolveIterate ==
    /\ pc = "cg for"
    /\ \E i \in {itn + 1} :
       \E z1 \in {RMatVec(MAM, heap[P])} :
       \E d \in {RDot(heap[P], z1)} :
       \E denominator \in {IF d = RInt(0) THEN Tiny ELSE d} :
       \E alpha1 \in {RDiv(residualnorm, denominator)} :
       \* residual_cg -= alpha * z writes into the array residual_cg names
       \E heap1 \in {[heap EXCEPT
                         ![residual_cg] = RVSub(heap[residual_cg], RVScale(alpha1, z1))]} :
       \E residualnorm_new \in {RDot(heap1[residual_cg], heap1[residual_cg])} :
       \E beta1 \in {RDiv(residualnorm_new, residualnorm)} :
       \E list1 \in {Append(residualnorm_list, residualnorm_new)} :
       \* P = residual_cg + beta * P makes a new array, and P names it
       \E P_new \in {RVAdd(heap1[residual_cg], RVScale(beta1, heap1[P]))} :
            /\ itn' = i
            /\ z' = z1
            /\ alpha' = alpha1
            /\ y' = RVAdd(y, RVScale(alpha1, heap[P]))
            /\ beta' = beta1
            /\ residualnorm' = residualnorm_new
            /\ residualnorm_list' = list1
            /\ heap' = <<heap1[residual_cg], P_new>>
            /\ residual_cg' = 1
            /\ P' = 2
            /\ pc' = IF \/ RLt(residualnorm_new, method_info[4])
                        \/ /\ i >= 2 * const
                           /\ i % const = 0
                           /\ RLt(RWindowSum(list1, i - 2 * const, i - const),
                                  RWindowSum(list1, i - const, i))
                        \/ i + 1 >= cg_cap(cg_maxiter, Len(heap[1]))
                     THEN "cg return"
                     ELSE "cg for"
    /\ UNCHANGED SolveFrame
    /\ UNCHANGED ret

\* Line 424: return M * y, grad, itn + 1, residualnorm (y: before the product
\* with M).
SolveReturn ==
    /\ pc = "cg return"
    /\ ret' = [y |-> y, itn |-> itn + 1, residualnorm |-> residualnorm]
    /\ pc' = "cg done"
    /\ UNCHANGED SolveFrame
    /\ UNCHANGED <<heap, P, residual_cg, z, alpha, beta, y, itn, residualnorm,
                   residualnorm_list>>

\* ---- rmatvec: the loop `for r in prange(R)`
\* rmatvec is compiled with parallel=True: the iterations of prange(R) run
\* on several threads, in any interleaving of their statements.  aux1, aux2,
\* aux3 and result are made once, before the loops, and every iteration
\* works on them.  The call is made for factors of two columns.
RaceColumns == {0, 1}
RaceR == Cardinality(RaceColumns)
\* A factor with d rows whose column r holds a + r in every row.
RaceMat(d, a) == Array([ir \in Rows(d) \X RaceColumns |-> Fin(a + ir[2])])
RaceInputs ==
    {[X |-> RaceMat(m, a), Y |-> RaceMat(n, b), Z |-> RaceMat(p, 1),
      u |-> Array([s \in 0 .. (m * n * p - 1) |-> Fin(c)])] :
        a \in {1}, b \in {1}, c \in {1, -1}}

\* The statements of one iteration of prange(R), lines 625-637, by position:
\* 0 is aux1 *= 0, 1 .. n the passes of the loop over j, n + 1 the store of
\* aux1, then aux2 *= 0, aux3 *= 0, the two statements of each pass of the
\* loop over i, the store of aux2, the store of aux3; RaceEnd: all done.
RaceEnd == n + 2 * m + 6

\* Lines 605-620: result is empty, the three accumulators are zeros, NX, NY
\* and NZ are made from u.
RaceInit ==
    /\ T = Unbound /\ options = Unbound /\ fix_mode = -1
    /\ X_orig = Unbound /\ Y_orig = Unbound /\ Z_orig = Unbound
    /\ Tsize = UnboundF /\ const = 0
    /\ x = Unbound /\ y = Unbound
    /\ res = Unbound /\ T_approx = Unbound /\ old_x = Unbound
    /\ error = UnboundF /\ old_error = UnboundF
    /\ best_error = UnboundF /\ best_X = Unbound /\ best_Y = Unbound /\ best_Z = Unbound
    /\ damp = [num |-> 1, den |-> 1]
    /\ stop = 5 /\ it = -1
    /\ step_sizes = Unbound /\ errors = Unbound /\ improv = Unbound /\ gradients = Unbound
    /\ grad = Unbound /\ path = <<>> /\ ret = Unbound
    /\ method_info = Unbound /\ itn = 0 /\ cg_maxiter = 0 /\ residualnorm_list = <<>>
    /\ residualnorm = UnboundF
    /\ heap = Unbound /\ P = Unbound /\ residual_cg = Unbound
    /\ z = Unbound /\ alpha = Unbound /\ beta = Unbound /\ MAM = Unbound
    /\ args = Unbound /\ stdout = Unbound
    /\ \E in \in RaceInputs :
           /\ X = in.X /\ Y = in.Y /\ Z = in.Z /\ u = in.u
    /\ data = [NX |-> Array([jir \in Rows(n) \X Rows(m) \X RaceColumns |->
                                rmatvec_NX(u, Z, jir[1], jir[2], jir[3])]),
               NY |-> Array([ijr \in Rows(m) \X Rows(n) \X RaceColumns |->
                                rmatvec_NY(u, Z, ijr[1], ijr[2], ijr[3])]),
               NZ |-> Array([irk \in Rows(m) \X RaceColumns \X Rows(p) |->
                                rmatvec_NZ(u, Y, irk[1], irk[2], irk[3])])]
    /\ result = [s \in 0 .. (RaceR * (m + n + p) - 1) |-> Uninit]
    /\ aux1 = [i \in Rows(m) |-> Zero]
    /\ aux2 = [j \in Rows(n) |-> Zero]
    /\ aux3 = [k \in Rows(p) |-> Zero]
    /\ at = [r \in RaceColumns |-> 0]
    /\ pc = "rmatvec"

\* The names no statement of the loop over r assigns.
RaceFrame ==
    <<T, options, fix_mode, X_orig, Y_orig, Z_orig, Tsize, const, x, y, res, T_approx,
      old_x, error, old_error, best_error, best_X, best_Y, best_Z, damp, stop, it,
      step_sizes, errors, improv, gradients, grad, path, method_info, itn, cg_maxiter,
      residualnorm_list, residualnorm, heap, P, residual_cg, z, alpha, beta, MAM,
      args, stdout, X, Y, Z, u, data>>

\* a *= 0, a += c * b and result[lo : lo + len] = a, in place.
TimesZero(a) == [i \in DOMAIN a |-> FMul(a[i], Zero)]
PlusScaled(a, c, b) == [i \in DOMAIN a |-> FAdd(a[i], FMul(c, b[i]))]
Store(w, lo, a) ==
    [s \in DOMAIN w |-> IF s - lo \in DOMAIN a THEN a[s - lo] ELSE w[s]]

\* Iteration r of prange(R) executes its next statement.
RaceStep(r) ==
    /\ pc = "rmatvec"
    /\ at[r] < RaceEnd
    /\ at' = [at EXCEPT ![r] = at[r] + 1]
    /\ \E q \in {at[r]} :
       \E j \in {q - 1} :
       \E i \in {(q - n - 4) \div 2} :
          /\ aux1' = IF q = 0 THEN TimesZero(aux1)
                     ELSE IF q <= n
                          THEN PlusScaled(aux1, Y[<<j, r>>],
                                          [i1 \in Rows(m) |-> data.NX[<<j, i1, r>>]])
                     ELSE aux1
          /\ aux2' = IF q = n + 2 THEN TimesZero(aux2)
                     ELSE IF q >= n + 4 /\ q < n + 4 + 2 * m /\ (q - n - 4) % 2 = 0
                          THEN PlusScaled(aux2, X[<<i, r>>],
                                          [j1 \in Rows(n) |-> data.NY[<<i, j1, r>>]])
                     ELSE aux2
          /\ aux3' = IF q = n + 3 THEN TimesZero(aux3)
                     ELSE IF q >= n + 4 /\ q < n + 4 + 2 * m /\ (q - n - 4) % 2 = 1
                          THEN PlusScaled(aux3, X[<<i, r>>],
                                          [k1 \in Rows(p) |-> data.NZ[<<i, r, k1>>]])
                     ELSE aux3
          /\ result' = IF q = n + 1 THEN Store(result, r * m, aux1)
                       ELSE IF q = n + 4 + 2 * m
                            THEN Store(result, RaceR * m + r * n, aux2)
                       ELSE IF q = n + 5 + 2 * m
                            THEN Store(result, RaceR * (m + n) + r * p, aux3)
                       ELSE result
    /\ UNCHANGED RaceFrame
    /\ UNCHANGED <<pc, ret>>

\* Line 639, once every iteration is done: return -result.
RaceReturn ==
    /\ pc = "rmatvec"
    /\ \A r \in RaceColumns : at[r] = RaceEnd
    /\ ret' = Array([s \in DOMAIN result |-> FNeg(result[s])])
    /\ pc' = "rmatvec returned"
    /\ UNCHANGED RaceFrame
    /\ UNCHANGED <<aux1, aux2, aux3, result, at>>

\* ---- cg: the arrays of data
\* prepare_data: every array is made by empty, M and L by ones.  data holds
\* the arrays under the names cg gives them at lines 347-361.
EmptyMat(a, b) == Array([ij \in Rows(a) \X Rows(b) |-> Uninit])
prepare_data ==
    [Gr_X |-> EmptyMat(R, R), Gr_Y |-> EmptyMat(R, R), Gr_Z |-> EmptyMat(R, R),
     Gr_XY |-> EmptyMat(R, R), Gr_XZ |-> EmptyMat(R, R), Gr_YZ |-> EmptyMat(R, R),
     V_Xt_dot_X |-> EmptyMat(R, R), V_Yt_dot_Y |-> EmptyMat(R, R),
     V_Zt_dot_Z |-> EmptyMat(R, R),
     Gr_Z_V_Yt_dot_Y |-> EmptyMat(R, R), Gr_Y_V_Zt_dot_Z |-> EmptyMat(R, R),
     Gr_X_V_Zt_dot_Z |-> EmptyMat(R, R), Gr_Z_V_Xt_dot_X |-> EmptyMat(R, R),
     Gr_Y_V_Xt_dot_X |-> EmptyMat(R, R), Gr_X_V_Yt_dot_Y |-> EmptyMat(R, R),
     X_dot_Gr_Z_V_Yt_dot_Y |-> EmptyMat(m, R), X_dot_Gr_Y_V_Zt_dot_Z |-> EmptyMat(m, R),
     Y_dot_Gr_X_V_Zt_dot_Z |-> EmptyMat(n, R), Y_dot_Gr_Z_V_Xt_dot_X |-> EmptyMat(n, R),
     Z_dot_Gr_Y_V_Xt_dot_X |-> EmptyMat(p, R), Z_dot_Gr_X_V_Yt_dot_Y |-> EmptyMat(p, R),
     Gr_YZ_V_Xt |-> EmptyMat(R, m), Gr_XZ_V_Yt |-> EmptyMat(R, n),
     Gr_XY_V_Zt |-> EmptyMat(R, p),
     B_X_v |-> EmptyArray(m * R), B_Y_v |-> EmptyArray(n * R), B_Z_v |-> EmptyArray(p * R),
     B_XY_v |-> EmptyArray(m * R), B_XZ_v |-> EmptyArray(m * R),
     B_YZ_v |-> EmptyArray(n * R), B_XYt_v |-> EmptyArray(n * R),
     B_XZt_v |-> EmptyArray(p * R), B_YZt_v |-> EmptyArray(p * R),
     Gamma |-> EmptyArray(VLen),
     M |-> ConstVec(Fin(1)), L |-> ConstVec(Fin(1)),
     Q |-> EmptyArray(VLen)]

\* The factors of a call: entry (i, r) of a factor is a + i - r.
CacheMat(d, a) == Array([ir \in Rows(d) \X Cols |-> Fin(a + ir[1] - ir[2])])
CacheFactors ==
    {[X |-> CacheMat(m, a), Y |-> CacheMat(n, b), Z |-> CacheMat(p, 1)] :
        a \in {0, 1}, b \in {1, 2}}
\* The vectors Q = M * P handed to matvec: entry t is 2, the others are c.
CacheVectors ==
    {Array([s \in 0 .. (VLen - 1) |-> Fin(IF s = t THEN 2 ELSE c)]) :
        t \in 0 .. (VLen - 1), c \in {0, 1}}
CacheBudgets == {1, 2}

\* cg is entered (line 339) with the arrays prepare_data made.
CacheInit ==
    /\ T = Unbound /\ options = Unbound /\ fix_mode = -1
    /\ X_orig = Unbound /\ Y_orig = Unbound /\ Z_orig = Unbound
    /\ Tsize = UnboundF /\ const = 0
    /\ x = Unbound /\ y = Unbound
    /\ res = Unbound /\ T_approx = Unbound /\ old_x = Unbound
    /\ error = UnboundF /\ old_error = UnboundF
    /\ best_error = UnboundF /\ best_X = Unbound /\ best_Y = Unbound /\ best_Z = Unbound
    /\ damp = [num |-> 1, den |-> 1]
    /\ stop = 5 /\ it = -1
    /\ step_sizes = Unbound /\ errors = Unbound /\ improv = Unbound /\ gradients = Unbound
    /\ grad = Unbound /\ path = <<>> /\ ret = Unbound
    /\ method_info = Unbound /\ itn = -1 /\ residualnorm_list = <<>>
    /\ residualnorm = UnboundF
    /\ heap = Unbound /\ P = Unbound /\ residual_cg = Unbound
    /\ z = Unbound /\ alpha = Unbound /\ beta = Unbound /\ MAM = Unbound
    /\ u = Unbound /\ aux1 = Unbound /\ aux2 = Unbound /\ aux3 = Unbound
    /\ result = Unbound /\ at = Unbound
    /\ args = Unbound /\ stdout = Unbound
    /\ \E in \in CacheFactors : X = in.X /\ Y = in.Y /\ Z = in.Z
    /\ cg_maxiter \in CacheBudgets
    /\ data = prepare_data
    /\ pc = "cg arrays"

\* The names no statement of cg that works on the arrays of data assigns.
CacheFrame ==
    <<T, options, fix_mode, X_orig, Y_orig, Z_orig, Tsize, const, x, y, res, T_approx,
      old_x, error, old_error, best_error, best_X, best_Y, best_Z, damp, stop, it,
      step_sizes, errors, improv, gradients, grad, path, method_info, cg_maxiter,
      residualnorm_list, residualnorm, heap, P, residual_cg, alpha, beta, MAM,
      u, aux1, aux2, aux3, result, at, args, stdout, X, Y, Z>>

\* Lines 364-372: gramians, regularization and precond fill their arrays;
\* L names Gamma, M names the new array 1/sqrt(M) of precond's line 687.
CacheSetup ==
    /\ pc = "cg arrays"
    /\ \E d1 \in {gramians(data, X, Y, Z)} :
       \E Gamma \in {regularization(X, Y, Z)} :
           data' = [d1 EXCEPT !.Gamma = Gamma, !.L = Gamma,
                              !.M = precond(X, Y, Z, Gamma, damp)]
    /\ pc' = "cg matvec"
    /\ UNCHANGED CacheFrame
    /\ UNCHANGED <<itn, z, ret>>

\* One pass through the loop of cg, lines 385-422, as far as the arrays of
\* data go: Q = M * P is a new array, matvec writes its arrays and returns z;
\* the statements after it assign y, residual_cg and P, arrays of the call.
\* The loop ends at its cap, or earlier at a break.
CacheIterate ==
    /\ pc = "cg matvec"
    /\ itn + 1 < cg_cap(cg_maxiter, VLen)
    /\ \E Q \in CacheVectors :
       \E d1 \in {matvec_arrays(data, X, Y, Z, Q)} :
           /\ data' = [d1 EXCEPT !.Q = Q]
           /\ z' = matvec(d1)
    /\ itn' = itn + 1
    /\ \E brk \in BOOLEAN :
           pc' = IF brk \/ itn + 2 >= cg_cap(cg_maxiter, VLen) THEN "cg out" ELSE "cg matvec"
    /\ UNCHANGED CacheFrame
    /\ UNCHANGED ret

\* Line 424: cg returns.
CacheReturn ==
    /\ pc = "cg out"
    /\ ret' = [itn |-> itn + 1]
    /\ pc' = "cg left"
    /\ UNCHANGED CacheFrame
    /\ UNCHANGED <<data, itn, z>>

\* ---- dGN: the stopping conditions over a long run
\* Lines 195-253 of the loop of dGN on their own: the error of each
\* iteration is drawn, the step size and the gradient norm are 1, so that
\* the conditions 0, 1 and 3 never hold; maxiter is StopMaxIter.
StopMaxIter == 10
StopErrors == {Fin(Unit), Fin(2 * Unit)}
StopImprovs == {0, 1}

StopInit ==
    /\ T = Unbound /\ fix_mode = -1
    /\ X_orig = Unbound /\ Y_orig = Unbound /\ Z_orig = Unbound
    /\ method_info = <<"cg_static", 1, 1, Fin(1)>>
    /\ \E ti \in StopImprovs :
           options = OptionsOf(StopMaxIter, 1, <<0, ti, 0>>, method_info, DefaultBi)
    /\ Tsize = Fin(Unit)
    /\ const = 1 + (options.maxiter \div 10)
    /\ X = Unbound /\ Y = Unbound /\ Z = Unbound /\ x = Unbound /\ y = Unbound
    /\ res = Unbound /\ T_approx = Unbound /\ old_x = Unbound
    /\ error = Fin(Unit) /\ old_error = UnboundF
    /\ best_error = UnboundF /\ best_X = Unbound /\ best_Y = Unbound /\ best_Z = Unbound
    /\ damp = [num |-> 1, den |-> 1]
    /\ stop = 5 /\ it = -1
    /\ step_sizes = EmptyArray(options.maxiter)
    /\ errors = EmptyArray(options.maxiter)
    /\ improv = EmptyArray(options.maxiter)
    /\ gradients = EmptyArray(options.maxiter)
    /\ grad = Unbound /\ path = <<>> /\ ret = Unbound
    /\ itn = 0 /\ cg_maxiter = 0 /\ residualnorm_list = <<>> /\ residualnorm = UnboundF
    /\ NoCallee
    /\ pc = "stopping conditions"

\* The names the lines 195-253 do not assign.
StopFrame ==
    <<T, options, fix_mode, X_orig, Y_orig, Z_orig, method_info, Tsize, const,
      X, Y, Z, x, y, res, T_approx, old_x, best_error, best_X, best_Y, best_Z, damp,
      grad, path, ret, itn, cg_maxiter, residualnorm_list, residualnorm>>

\* Iteration it + 1: the diagnostics are recorded (lines 195-205), then the
\* stopping conditions are tested (lines 230-253); the loop is left on a
\* stop code other than 5, and after iteration maxiter - 1.
StopRecord ==
    /\ pc = "stopping conditions"
    /\ it + 1 < options.maxiter
    /\ \E i \in {it + 1} :
       \E error1 \in StopErrors :
       \E errors1 \in {[errors EXCEPT ![i] = error1]} :
       \E step_sizes1 \in {[step_sizes EXCEPT ![i] = Fin(Unit)]} :
       \E gradients1 \in {[gradients EXCEPT ![i] = Fin(Unit)]} :
       \E improv1 \in {[improv EXCEPT
                          ![i] = IF i = 0 THEN errors1[i]
                                 ELSE FAbs(FSub(errors1[i - 1], errors1[i]))]} :
       \E stop1 \in {stop_check(i, errors1, step_sizes1, improv1, gradients1, error1)} :
            /\ it' = i
            /\ old_error' = error
            /\ error' = error1
            /\ errors' = errors1
            /\ step_sizes' = step_sizes1
            /\ gradients' = gradients1
            /\ improv' = improv1
            /\ stop' = stop1
            /\ pc' = IF stop1 # 5 \/ i + 1 >= options.maxiter
                     THEN "stopping conditions left" ELSE "stopping conditions"
    /\ UNCHANGED StopFrame
    /\ UNCHANGED CalleeVars

\* ---- the index layouts of the kernels
\* For a shape m x n x p and a rank R of their own, the slots the kernels
\* write and read.  An entry of a factor is named <<block, row, column>>, an
\* entry of a tensor <<i, j, k>>; a slot of an array holds the set of the
\* names written to it.
residual_slot(sh, i, j, k) == sh.n * sh.p * i + sh.p * j + k
\* residual, lines 315-319: the loops over j, k, i.
residual_writes(sh) ==
    Array([s \in 0 .. (sh.m * sh.n * sh.p - 1) |->
        {ijk \in Box(sh.m, sh.n, sh.p) : residual_slot(sh, ijk[1], ijk[2], ijk[3]) = s}])
\* rmatvec, lines 611-615: N2[i, j, :] = u[(i*n + j)*p : (i*n + j + 1)*p].
rmatvec_reads(sh, u1) ==
    Array([ijk \in Box(sh.m, sh.n, sh.p) |-> u1[(ijk[1] * sh.n + ijk[2]) * sh.p + ijk[3]]])

\* The entries of the three factors.
FactorEntries(sh) ==
    {<<"X", i, r>> : i \in Rows(sh.m), r \in Rows(sh.R)}
        \cup {<<"Y", j, r>> : j \in Rows(sh.n), r \in Rows(sh.R)}
        \cup {<<"Z", k, r>> : k \in Rows(sh.p), r \in Rows(sh.R)}
\* The vector of length R*(m + n + p) in which entry e lies at slot_of[e].
Written(sh, slot_of) ==
    Array([s \in 0 .. (sh.R * (sh.m + sh.n + sh.p) - 1) |->
        {e \in FactorEntries(sh) : slot_of[e] = s}])
RowsOf(sh, e) == IF e[1] = "X" THEN sh.m ELSE IF e[1] = "Y" THEN sh.n ELSE sh.p

\* dGN, line 119: concatenate((X.flatten('F'), Y.flatten('F'), Z.flatten('F')));
\* flatten('F') puts entry (i, r) of a d x R matrix at r*d + i.
flatten_slot(sh, e) ==
    (IF e[1] = "X" THEN 0 ELSE IF e[1] = "Y" THEN sh.m * sh.R ELSE sh.m * sh.R + sh.n * sh.R)
        + e[3] * RowsOf(sh, e) + e[2]
\* Variant of Gamma_slot: the slices of the Y block are m long.
Gamma_slot_stride_m(sh, e) ==
    IF e[1] = "X" THEN e[3] * sh.m + e[2]
    ELSE IF e[1] = "Y" THEN sh.m * sh.R + e[3] * sh.m + e[2]
    ELSE sh.R * (sh.m + sh.n) + e[3] * sh.p + e[2]
\* regularization, lines 665-667: Gamma[r*m : (r+1)*m], Gamma[m*R + r*n :
\* m*R + (r+1)*n], Gamma[R*(m+n) + r*p : R*(m+n) + (r+1)*p].
Gamma_slot(sh, e) ==
    IF e[1] = "X" THEN e[3] * sh.m + e[2]
    ELSE IF e[1] = "Y" THEN sh.m * sh.R + e[3] * sh.n + e[2]
    ELSE sh.R * (sh.m + sh.n) + e[3] * sh.p + e[2]
\* precond, lines 681-685: the same slices of M.
M_slot(sh, e) ==
    IF e[1] = "X" THEN e[3] * sh.m + e[2]
    ELSE IF e[1] = "Y" THEN sh.m * sh.R + e[3] * sh.n + e[2]
    ELSE sh.R * (sh.m + sh.n) + e[3] * sh.p + e[2]
\* rmatvec, lines 628, 636, 637: result[r*m : (r+1)*m] = aux1,
\* result[R*m + r*n : R*m + (r+1)*n] = aux2, result[R*(m+n) + r*p : ...] = aux3.
result_slot(sh, e) ==
    IF e[1] = "X" THEN e[3] * sh.m + e[2]
    ELSE IF e[1] = "Y" THEN sh.R * sh.m + e[3] * sh.n + e[2]
    ELSE sh.R * (sh.m + sh.n) + e[3] * sh.p + e[2]
\* matvec, lines 559-561: v[0 : m*R].reshape(R, m), v[m*R : R*(m+n)].reshape(R, n),
\* v[R*(m+n) : R*(m+n+p)].reshape(R, p); entry (r, i) of the reshaped block
\* is its entry r*d + i.
V_slot(sh, e) ==
    (IF e[1] = "X" THEN 0 ELSE IF e[1] = "Y" THEN sh.m * sh.R ELSE sh.R * (sh.m + sh.n))
        + e[3] * RowsOf(sh, e) + e[2]
\* matvec, lines 590-600: vec and vect fill the blocks B_*_v (column r, or
\* row r, at [r*d, (r+1)*d)), concatenate puts the blocks of m*R, n*R and
\* p*R entries one after the other.
B_slot(sh, e) ==
    (IF e[1] = "X" THEN 0 ELSE IF e[1] = "Y" THEN sh.m * sh.R ELSE sh.m * sh.R + sh.n * sh.R)
        + e[3] * RowsOf(sh, e) + e[2]

\* The shapes drawn.
LayoutDim == 3
LayoutRank == 2
LayoutShapes ==
    {[m |-> a, n |-> b, p |-> c, R |-> r] :
        a \in 1 .. LayoutDim, b \in 1 .. LayoutDim, c \in 1 .. LayoutDim, r \in 1 .. LayoutRank}

LayoutInit ==
    /\ T = Unbound /\ options = Unbound /\ fix_mode = -1
    /\ X_orig = Unbound /\ Y_orig = Unbound /\ Z_orig = Unbound
    /\ method_info = Unbound /\ Tsize = UnboundF /\ const = 0
    /\ X = Unbound /\ Y = Unbound /\ Z = Unbound /\ x = Unbound /\ y = Unbound
    /\ res = Unbound /\ T_approx = Unbound /\ old_x = Unbound
    /\ error = UnboundF /\ old_error = UnboundF
    /\ best_error = UnboundF /\ best_X = Unbound /\ best_Y = Unbound /\ best_Z = Unbound
    /\ damp = [num |-> 1, den |-> 1]
    /\ stop = 5 /\ it = -1
    /\ step_sizes = Unbound /\ errors = Unbound /\ improv = Unbound /\ gradients = Unbound
    /\ grad = Unbound /\ path = <<>> /\ ret = Unbound
    /\ itn = 0 /\ cg_maxiter = 0 /\ residualnorm_list = <<>> /\ residualnorm = UnboundF
    /\ data = Unbound /\ heap = Unbound /\ P = Unbound /\ residual_cg = Unbound
    /\ z = Unbound /\ alpha = Unbound /\ beta = Unbound /\ MAM = Unbound
    /\ u = Unbound /\ aux1 = Unbound /\ aux2 = Unbound /\ aux3 = Unbound
    /\ result = Unbound /\ at = Unbound /\ stdout = Unbound
    /\ args \in LayoutShapes
    /\ pc = "layouts"

LayoutFrame ==
    <<T, options, fix_mode, X_orig, Y_orig, Z_orig, method_info, Tsize, const,
      X, Y, Z, x, y, T_approx, old_x, error, old_error, best_error, best_X, best_Y,
      best_Z, damp, stop, it, step_sizes, errors, improv, gradients, grad, path, ret,
      itn, cg_maxiter, residualnorm_list, residualnorm, heap, P, residual_cg,
      z, alpha, beta, MAM, aux1, aux2, aux3, result, at, stdout, args, pc>>

\* residual fills res.
LayoutResidual ==
    /\ pc = "layouts" /\ res = Unbound
    /\ res' = residual_writes(args)
    /\ UNCHANGED LayoutFrame
    /\ UNCHANGED <<u, data>>

\* rmatvec reads u = res into N2.
LayoutRmatvec ==
    /\ pc = "layouts" /\ res # Unbound /\ u = Unbound
    /\ u' = rmatvec_reads(args, res)
    /\ UNCHANGED LayoutFrame
    /\ UNCHANGED <<res, data>>

\* The vectors of length R*(m + n + p), each filled by its kernel.
LayoutVectors ==
    /\ pc = "layouts" /\ data = Unbound
    /\ data' = [x |-> Written(args, [e \in FactorEntries(args) |-> flatten_slot(args, e)]),
                Gamma |-> Written(args, [e \in FactorEntries(args) |-> Gamma_slot(args, e)]),
                M |-> Written(args, [e \in FactorEntries(args) |-> M_slot(args, e)]),
                grad |-> Written(args, [e \in FactorEntries(args) |-> result_slot(args, e)]),
                Q |-> Written(args, [e \in FactorEntries(args) |-> V_slot(args, e)]),
                z |-> Written(args, [e \in FactorEntries(args) |-> B_slot(args, e)])]
    /\ UNCHANGED LayoutFrame
    /\ UNCHANGED <<res, u>>

\* The callees of dGN and the stopping conditions of its loop, each on its own.
InitKernels == SolveInit \/ RaceInit \/ CacheInit \/ StopInit \/ LayoutInit
NextKernels ==
    \/ SolveIterate \/ SolveReturn
    \/ (\E r \in RaceColumns : RaceStep(r)) \/ RaceReturn
    \/ CacheSetup \/ CacheIterate \/ CacheReturn
    \/ StopRecord
    \/ LayoutResidual \/ LayoutRmatvec \/ LayoutVectors
SpecKernels == InitKernels /\ [][NextKernels]_vars

\* ------------------------------------------------------------------ Auxiliar
\* sort_dims, unsort_dims and output_info's stop_msg, called on their own.
\* A list of Python is a sequence; At(s, i) is s[i].
At(s, i) == s[i + 1]
\* None, as a value of the model.
None == <<>>
\* What an index outside an array reads.
OutOfBounds == <<-1, -1, -1>>

\* numpy.argsort of a list of three: position k holds the index of the
\* entry with k entries before it in the sorted order (ties by index).
argsort(s) ==
    LET before(t) == Cardinality({q \in 0 .. 2 :
                         At(s, q) < At(s, t) \/ (At(s, q) = At(s, t) /\ q < t)})
    IN  [k1 \in 1 .. 3 |-> CHOOSE t \in 0 .. 2 : before(t) = k1 - 1]

\* An array of three axes: its shape and its entries.
Tensor(shape, f) == [shape |-> shape, at |-> f]

\* sort_T: T_sorted[i, j, k] = T[idx[inv_sort[0]], idx[inv_sort[1]], idx[inv_sort[2]]]
\* with idx = (i, j, k).
sort_T(Tc, inv_sort, a, b, c) ==
    Tensor(<<a, b, c>>,
           Array([idx \in Box(a, b, c) |->
               LET src == <<At(idx, At(inv_sort, 0)), At(idx, At(inv_sort, 1)),
                            At(idx, At(inv_sort, 2))>>
               IN  IF src \in DOMAIN Tc.at THEN Tc.at[src] ELSE OutOfBounds]))

\* Variant of sort_ordering: the third and the last branch hand out each
\* other's ordering.
sort_ordering_swapped(a, b, c) ==
    IF a >= b /\ b >= c THEN <<0, 1, 2>>
    ELSE IF c >= b /\ b >= a THEN <<2, 1, 0>>
    ELSE IF b >= c /\ c >= a THEN <<2, 0, 1>>
    ELSE IF a >= c /\ c >= b THEN <<0, 2, 1>>
    ELSE IF b >= a /\ a >= c THEN <<1, 0, 2>>
    ELSE IF c >= a /\ a >= b THEN <<1, 2, 0>>
    ELSE Unbound

\* sort_dims, lines 89-105: the branch taken; when no branch applies,
\* ordering is unbound at line 109.
sort_ordering(a, b, c) ==
    IF a >= b /\ b >= c THEN <<0, 1, 2>>
    ELSE IF c >= b /\ b >= a THEN <<2, 1, 0>>
    ELSE IF b >= c /\ c >= a THEN <<1, 2, 0>>
    ELSE IF a >= c /\ c >= b THEN <<0, 2, 1>>
    ELSE IF b >= a /\ a >= c THEN <<1, 0, 2>>
    ELSE IF c >= a /\ a >= b THEN <<2, 0, 1>>
    ELSE Unbound

\* sort_dims(T, m, n, p): T itself in the first branch, else the array that
\* sort_T fills.
sort_dims(Tc, a, b, c) ==
    LET ordering == sort_ordering(a, b, c)
    IN  IF ordering = Unbound
        THEN [status |-> "UnboundLocalError", T_sorted |-> Unbound, ordering |-> Unbound]
        ELSE IF ordering = <<0, 1, 2>>
        THEN [status |-> "ok", T_sorted |-> Tc, ordering |-> ordering]
        ELSE [status |-> "ok",
              T_sorted |-> sort_T(Tc, argsort(ordering),
                                  At(Tc.shape, At(ordering, 0)),
                                  At(Tc.shape, At(ordering, 1)),
                                  At(Tc.shape, At(ordering, 2))),
              ordering |-> ordering]

\* Variant of unsort_dims: the results of [1, 2, 0] and [2, 0, 1] change places.
unsort_dims_swapped(Xc, Yc, Zc, ordering) ==
    IF ordering = <<0, 1, 2>> THEN <<Xc, Yc, Zc>>
    ELSE IF ordering = <<0, 2, 1>> THEN <<Xc, Zc, Yc>>
    ELSE IF ordering = <<1, 0, 2>> THEN <<Yc, Xc, Zc>>
    ELSE IF ordering = <<1, 2, 0>> THEN <<Yc, Zc, Xc>>
    ELSE IF ordering = <<2, 0, 1>> THEN <<Zc, Xc, Yc>>
    ELSE IF ordering = <<2, 1, 0>> THEN <<Zc, Yc, Xc>>
    ELSE None

\* unsort_dims(X, Y, Z, ordering); None when no branch applies.
unsort_dims(Xc, Yc, Zc, ordering) ==
    IF ordering = <<0, 1, 2>> THEN <<Xc, Yc, Zc>>
    ELSE IF ordering = <<0, 2, 1>> THEN <<Xc, Zc, Yc>>
    ELSE IF ordering = <<1, 0, 2>> THEN <<Yc, Xc, Zc>>
    ELSE IF ordering = <<1, 2, 0>> THEN <<Zc, Xc, Yc>>
    ELSE IF ordering = <<2, 0, 1>> THEN <<Yc, Zc, Xc>>
    ELSE IF ordering = <<2, 1, 0>> THEN <<Zc, Yc, Xc>>
    ELSE None

\* stop_msg: the lines printed for stop = [mlsvd_stop, stop_main, stop_refine].
mlsvd_messages(c) ==
    CASE c = 0 -> <<"0 - Truncation was given manually by the user.">>
      [] c = 1 -> <<"1 - User choose energy = -1, that is, to work with the original tensor.">>
      [] c = 2 -> <<"2 - When testing the truncations a big gap between singular values were detected and the program lock the size of the truncation.">>
      [] c = 3 -> <<"3 - The program was unable to truncate at the very first attempt. In this case the singular values of the MLSVD are equal or almost equal. The program stops the truncation process when this happens.">>
      [] c = 4 -> <<"4 - Tensor probably is random or has a lot of noise.">>
      [] c = 5 -> <<"5 - The energy of the truncation is accepted because it is big enough.">>
      [] c = 6 -> <<"6 - None of the previous conditions were satisfied and we used the last truncation computed. This condition is only possible at the second stage.">>
      [] c = 7 -> <<"7 - User choose energy = 1, that is, to work with the compressed tensor (the central tensor of the MLSVD) without truncating it.">>
      [] OTHER -> <<>>
main_messages(c) ==
    CASE c = 0 -> <<"0 - Steps are too small.">>
      [] c = 1 -> <<"1 - The improvement in the relative error is too small.">>
      [] c = 2 -> <<"2 - The gradient is close enough to 0.">>
      [] c = 3 -> <<"3 - The average of the last k relative errors is too small, where k = 1 + int(maxiter/10).">>
      [] c = 4 -> <<"4 - Limit of iterations was been reached.">>
      [] c = 6 -> <<"6 - dGN diverged.">>
      [] OTHER -> <<>>
refine_messages(c) ==
    CASE c = 0 -> <<"0 - Steps are too small.">>
      [] c = 1 -> <<"1 - The improvement in the relative error is too small.">>
      [] c = 2 -> <<"2 - The gradient is close enough to 0.">>
      [] c = 3 -> <<"3 - The average of the last k relative errors is too small, where k = 1 + int(maxiter/10).">>
      [] c = 4 -> <<"4 - Limit of iterations was been reached.">>
      [] c = 5 -> <<"5 - No refinement was performed.">>
      [] c = 6 -> <<"6 - dGN diverged.">>
      [] OTHER -> <<>>
stop_msg(stops) ==
    <<"MLSVD stop:">> \o mlsvd_messages(At(stops, 0))
        \o <<"", "Main stop:">> \o main_messages(At(stops, 1))
        \o <<"", "Refinement stop:">> \o refine_messages(At(stops, 2))

\* ---- the calls
\* Largest dimension of the tensors handed to sort_dims.
MaxDim == 3
\* The codes dGN returns, and the codes of the compression stage.
DgnStops == 0 .. 6
MlsvdStops == {0, 7}

\* The names of dGN and of its callees, which Auxiliar does not use.
AuxiliarIdle ==
    /\ T = Unbound /\ options = Unbound /\ fix_mode = -1
    /\ X_orig = Unbound /\ Y_orig = Unbound /\ Z_orig = Unbound
    /\ method_info = Unbound /\ Tsize = UnboundF /\ const = 0
    /\ x = Unbound /\ y = Unbound
    /\ res = Unbound /\ T_approx = Unbound /\ old_x = Unbound
    /\ error = UnboundF /\ old_error = UnboundF
    /\ best_error = UnboundF /\ best_X = Unbound /\ best_Y = Unbound /\ best_Z = Unbound
    /\ damp = [num |-> 1, den |-> 1]
    /\ stop = 5 /\ it = -1
    /\ step_sizes = Unbound /\ errors = Unbound /\ improv = Unbound /\ gradients = Unbound
    /\ grad = Unbound /\ path = <<>>
    /\ itn = 0 /\ cg_maxiter = 0 /\ residualnorm_list = <<>> /\ residualnorm = UnboundF
    /\ data = Unbound /\ heap = Unbound /\ P = Unbound /\ residual_cg = Unbound
    /\ z = Unbound /\ alpha = Unbound /\ beta = Unbound /\ MAM = Unbound
    /\ u = Unbound /\ aux1 = Unbound /\ aux2 = Unbound /\ aux3 = Unbound
    /\ result = Unbound /\ at = Unbound
AuxiliarFrame ==
    <<T, options, fix_mode, X_orig, Y_orig, Z_orig, method_info, Tsize, const,
      x, y, res, T_approx, old_x, error, old_error, best_error, best_X, best_Y, best_Z,
      damp, stop, it, step_sizes, errors, improv, gradients, grad, path,
      itn, cg_maxiter, residualnorm_list, residualnorm,
      data, heap, P, residual_cg, z, alpha, beta, MAM,
      u, aux1, aux2, aux3, result, at>>

\* A call sort_dims(T, m, n, p) with m, n, p = T.shape; entry (i, j, k) of T
\* is the triple <<i, j, k>>, so that an entry tells where it came from.
SortInit ==
    /\ AuxiliarIdle
    /\ \E a, b, c \in 1 .. MaxDim :
           args = [T |-> Tensor(<<a, b, c>>, Array([ijk \in Box(a, b, c) |-> ijk])),
                   m |-> a, n |-> b, p |-> c]
    /\ X = Unbound /\ Y = Unbound /\ Z = Unbound
    /\ ret = Unbound /\ stdout = <<>>
    /\ pc = "sort_dims"

\* sort_dims returns; the factors X, Y, Z computed for the sorted tensor
\* belong to its modes 0, 1, 2 and have as many rows as these modes.
SortDims ==
    /\ pc = "sort_dims"
    /\ \E r \in {sort_dims(args.T, args.m, args.n, args.p)} :
           /\ ret' = r
           /\ IF r.status # "ok"
              THEN /\ pc' = "UnboundLocalError"
                   /\ UNCHANGED <<X, Y, Z>>
              ELSE /\ pc' = "unsort_dims"
                   /\ X' = [mode |-> 0, rows |-> At(r.T_sorted.shape, 0)]
                   /\ Y' = [mode |-> 1, rows |-> At(r.T_sorted.shape, 1)]
                   /\ Z' = [mode |-> 2, rows |-> At(r.T_sorted.shape, 2)]
    /\ UNCHANGED AuxiliarFrame
    /\ UNCHANGED <<args, stdout>>

\* unsort_dims(X, Y, Z, ordering) with the ordering sort_dims returned.
UnsortDims ==
    /\ pc = "unsort_dims"
    /\ args' = [T |-> args.T, m |-> args.m, n |-> args.n, p |-> args.p,
                ordering |-> ret.ordering]
    /\ ret' = unsort_dims(X, Y, Z, ret.ordering)
    /\ pc' = "unsort_dims returned"
    /\ UNCHANGED AuxiliarFrame
    /\ UNCHANGED <<X, Y, Z, stdout>>

\* An output object whose stop is [mlsvd_stop, stop_main, stop_refine].
MsgInit ==
    /\ AuxiliarIdle
    /\ args \in {[stop |-> <<c0, c1, c2>>] : c0 \in MlsvdStops, c1, c2 \in DgnStops}
    /\ X = Unbound /\ Y = Unbound /\ Z = Unbound
    /\ ret = Unbound /\ stdout = <<>>
    /\ pc = "stop_msg"

\* stop_msg prints its lines and returns ''.
StopMsg ==
    /\ pc = "stop_msg"
    /\ stdout' = stdout \o stop_msg(args.stop)
    /\ ret' = ""
    /\ pc' = "stop_msg returned"
    /\ UNCHANGED AuxiliarFrame
    /\ UNCHANGED <<X, Y, Z, args>>

InitAuxiliar == SortInit \/ MsgInit
NextAuxiliar == SortDims \/ UnsortDims \/ StopMsg
SpecAuxiliar == InitAuxiliar /\ [][NextAuxiliar]_vars

\* ------------------------------------------------------------------ properties
\* Where a call can stand: in the loop, past it (before the truncation), back
\* from `return`, or ended by the exception named.
InLoop == pc \in {"loop", "exit"}
LoopOver == pc \in {"exit", "returned", "UnboundLocalError"}
Aborted == pc \in {"sys.exit", "ValueError", "NameError"}
CgMethod == Len(method_info) = 4 /\ method_info[1] \in {"cg", "cg_static"}

\* Condition c of lines 230-253 holds for what was recorded at iteration i.
Held(c, i) ==
    CASE c = 0 -> Cond0(errors, i)
      [] c = 1 -> Cond1(step_sizes, i)
      [] c = 2 -> Cond2(improv, i)
      [] c = 3 -> Cond3(gradients, i)
      [] c = 4 -> Cond4(errors, i)
      [] c = 6 -> Cond6(errors[i])
StopCodes == {0, 1, 2, 3, 4, 6}
NoneHeld(i) == \A c \in StopCodes : ~Held(c, i)

\* The largest budget compute_step can hand to cg at iteration i, and the cap
\* cg puts on its loop.
CgBudget(i) ==
    IF method_info[1] = "cg"
    THEN 1 + method_info[3] * (CHOOSE k \in randint_values(i) :
                                  \A j \in randint_values(i) : j <= k)
    ELSE method_info[2]
CgCap(i) == MinInt(CgBudget(i), R * (m + n + p))

\* C1: with maxiter >= 1 and method 'cg' or 'cg_static' the call does not
\* abort, the index of the outer iteration stays below maxiter, every step
\* of the call starts the next outer iteration or is the one return, the stop
\* code is among 0..6 (never 7), and every cg call made between 1 and its cap
\* iterations.
C1_State ==
    CgMethod =>
        /\ ~Aborted
        /\ it < options.maxiter
        /\ stop \in 0 .. 6
        /\ pc = "returned" => ret.stop \in 0 .. 6 /\ Len(path) <= options.maxiter
        /\ it >= 0 => itn >= 1 /\ itn <= CgCap(it)
C1_Step ==
    \/ pc = "loop" /\ it' = it + 1
    \/ pc = "exit" /\ it' = it /\ pc' \in {"returned", "UnboundLocalError"}
C1_Terminates == []C1_State /\ [][C1_Step]_vars
\* A call with the largest maxiter returned after running cg up to its cap.
C1_Witness ==
    /\ pc = "returned" /\ CgMethod /\ it = MaxIter - 1
    /\ itn = CgCap(it) /\ itn > 1

\* C2: at an iteration it > 1 the code returned is the first of 0, 1, 2, 3,
\* 4, 6 whose condition holds; the loop goes on only if none holds; so 6 is
\* returned only if none of 0-4 holds.
C2_FixedOrder ==
    (it > 1 /\ ~Aborted) =>
        /\ stop # 5 => Held(stop, it) /\ \A c \in StopCodes : c < stop => ~Held(c, it)
        /\ stop = 6 => \A c \in 0 .. 4 : ~Held(c, it)
        /\ pc = "loop" => stop = 5
\* Three conditions held at the last iteration, the first of them is returned.
C2_Witness ==
    /\ pc = "returned" /\ it > 1 /\ ret.stop = 1
    /\ Held(1, it) /\ Held(2, it) /\ Held(6, it)

\* C3: at iterations 0 and 1 no stop condition ends the loop whatever was
\* recorded; the loop is over only after min(maxiter, 3) iterations; with
\* maxiter = 1 it is over after exactly one, with stop code 5.
C3_NoEarlyStop ==
    ~Aborted =>
        /\ it <= 1 => stop = 5
        /\ (it <= 1 /\ it + 1 < options.maxiter) => pc = "loop"
        /\ LoopOver => it + 1 >= MinInt(options.maxiter, 3)
        /\ (LoopOver /\ options.maxiter = 1) => it = 0 /\ stop = 5 /\ Len(path) = 1
        /\ (pc = "returned" /\ options.maxiter = 1) =>
               ret.stop = 5 /\ DOMAIN ret.errors = {0}
\* The loop is still running after iteration 1 although condition 0 held at
\* iterations 0 and 1.
C3_Witness ==
    /\ pc = "loop" /\ it = 1 /\ ~IsNaN(errors[0])
    /\ Held(0, 0) /\ Held(0, 1) /\ Held(1, 1)

\* C4: the code returned is 5 exactly if no condition held at any iteration
\* with index > 1 that was executed, and then maxiter entries are returned in
\* each array; a code c # 5 means that condition c held at the last recorded
\* iteration, whose index is > 1.
C4_StopFive ==
    pc = "returned" =>
        /\ ret.stop = 5 <=> \A i \in 2 .. it : NoneHeld(i)
        /\ ret.stop = 5 =>
               /\ it = options.maxiter - 1
               /\ \A a \in {ret.errors, ret.step_sizes, ret.improv, ret.gradients} :
                      DOMAIN a = 0 .. (options.maxiter - 1)
        /\ ret.stop # 5 =>
               /\ Held(ret.stop, it)
               /\ it > 1
               /\ DOMAIN ret.errors = 0 .. it
\* Code 5 after the tests of two iterations found no condition to hold.
C4_Witness ==
    /\ pc = "returned" /\ ret.stop = 5 /\ options.maxiter = MaxIter
    /\ options.tol_step > 0 /\ options.tol_improv > 0 /\ options.tol_grad > 0

\* The first index of e[0..len-1] that holds the least number of e, NaN
\* entries left aside as `error < best_error` does; -1 if there is none.
IsLeastAt(e, len, k) == ~IsNaN(e[k]) /\ \A j \in 0 .. (len - 1) : ~FLt(e[j], e[k])
FirstLeast(e, len) ==
    IF \E k \in 0 .. (len - 1) : IsLeastAt(e, len, k)
    THEN CHOOSE k \in 0 .. (len - 1) :
             IsLeastAt(e, len, k) /\ \A j \in 0 .. (k - 1) : ~IsLeastAt(e, len, j)
    ELSE -1
\* The least number among e[0..len-1]; +inf if there is none.
Least(e, len) == IF FirstLeast(e, len) = -1 THEN PInf ELSE e[FirstLeast(e, len)]

\* C5: the best-known factors are the factors as they were right after the
\* earliest iteration whose error is the least one recorded, whatever
\* iterations came after it; they are what dGN returns.
C5_BestFactors ==
    /\ (~Aborted /\ best_X # Unbound) =>
           LET k == FirstLeast(errors, it + 1)
           IN  /\ k >= 0
               /\ best_X = path[k + 1].X
               /\ best_Y = path[k + 1].Y
               /\ best_Z = path[k + 1].Z
    /\ pc = "returned" =>
           /\ ret.X = best_X /\ ret.Y = best_Y /\ ret.Z = best_Z
           /\ LET k == FirstLeast(ret.errors, it + 1)
              IN  ret.X = path[k + 1].X /\ ret.Y = path[k + 1].Y /\ ret.Z = path[k + 1].Z
\* The least error was not the last one: the factors returned are not the
\* last iterate.
C5_Witness ==
    /\ pc = "returned" /\ it >= 2
    /\ FirstLeast(ret.errors, it + 1) \in 0 .. (it - 1)
    /\ FLt(Least(ret.errors, it + 1), ret.errors[it])
    /\ ret.Y # Y

\* C6: best_error never increases from one state to the next, and after
\* iteration k it is the least of errors[0..k] (NaN entries left aside; +inf
\* if no number was recorded).
C6_State == (~Aborted /\ it >= 0) => best_error = Least(errors, it + 1)
C6_Step == FLe(best_error', best_error)
C6_BestMonotone == []C6_State /\ [][C6_Step]_vars
\* The error went down and up again: best_error is below the first error and
\* below the last.
C6_Witness ==
    /\ pc = "loop" /\ it >= 2
    /\ FLt(best_error, errors[0]) /\ FLt(best_error, errors[it])

\* The relative error of the factors returned.
ReturnedError == rel_error(T, cpd2tens(ret.X, ret.Y, ret.Z), Tsize)

Diagnostics == <<step_sizes, errors, improv, gradients>>

\* C8: in the loop every array holds maxiter slots, of which exactly the
\* slots 0..it were written; an iteration writes slot it of each array and
\* leaves the other slots alone; after the truncation each array has the
\* it + 1 entries written, and these are the arrays returned.
C8_State ==
    /\ InLoop =>
           \A a \in 1 .. 4 :
               /\ DOMAIN Diagnostics[a] = 0 .. (options.maxiter - 1)
               /\ \A j \in 0 .. (options.maxiter - 1) : (Diagnostics[a][j] # Uninit) <=> j <= it
    /\ pc \in {"returned", "UnboundLocalError"} =>
           \A a \in 1 .. 4 :
               /\ DOMAIN Diagnostics[a] = 0 .. it
               /\ \A j \in 0 .. it : Diagnostics[a][j] # Uninit
    /\ pc = "returned" =>
           /\ <<ret.step_sizes, ret.errors, ret.improv, ret.gradients>> = Diagnostics
           /\ Len(path) = it + 1
C8_Step ==
    \A a \in 1 .. 4 :
        /\ InLoop' => \A j \in 0 .. (options.maxiter - 1) :
                          j # it' => Diagnostics[a]'[j] = Diagnostics[a][j]
        /\ pc = "exit" => \A j \in 0 .. it : Diagnostics[a]'[j] = Diagnostics[a][j]
C8_OneEntryPerIteration == []C8_State /\ [][C8_Step]_vars
\* A call that left the loop by a break returned fewer than maxiter entries.
C8_Witness ==
    /\ pc = "returned" /\ ret.stop # 5
    /\ it + 1 < options.maxiter
    /\ DOMAIN ret.gradients = 0 .. it

\* The factor held fixed, as it stands and as it was passed in.
FixedFactor == IF fix_mode = 0 THEN X ELSE IF fix_mode = 1 THEN Y ELSE Z
FixedInput == IF fix_mode = 0 THEN X_orig ELSE IF fix_mode = 1 THEN Y_orig ELSE Z_orig
\* The block of x that belongs to the factor held fixed, as a matrix.
FixedBlock ==
    IF fix_mode = 0 THEN x2cpd(x).X ELSE IF fix_mode = 1 THEN x2cpd(x).Y ELSE x2cpd(x).Z

\* C9: with a factor held fixed, that factor equals the input in every
\* state, the error is the one of the approximation built with it, and the
\* factor returned in its place is the input.
C9_FixedFactor ==
    fix_mode # -1 =>
        /\ FixedFactor = FixedInput
        /\ T_approx = cpd2tens(X, Y, Z)
        /\ it >= 0 /\ ~Aborted => /\ error = rel_error(T, T_approx, Tsize)
                                  /\ path[it + 1] = [X |-> X, Y |-> Y, Z |-> Z]
        /\ pc = "returned" =>
               FixedInput = (IF fix_mode = 0 THEN ret.X ELSE IF fix_mode = 1 THEN ret.Y
                             ELSE ret.Z)
\* A call with Y held fixed returned although the steps of cg moved the
\* block of Y in x.
C9_Witness ==
    /\ pc = "returned" /\ fix_mode = 1
    /\ FixedBlock # Y_orig
    /\ ret.Y = Y_orig /\ ret.X # ret.Y

\* C10: with a method name other than 'cg' and 'cg_static' the call ends in
\* sys.exit during iteration 0: nothing is returned, no entry of the
\* diagnostics is written, no best solution is kept, and the step into
\* sys.exit leaves x, the factors, damp and stop as they were.
C10_State ==
    (Len(method_info) = 4 /\ method_info[1] \notin {"cg", "cg_static"} /\ it >= 0) =>
        /\ pc = "sys.exit"
        /\ it = 0
        /\ ret = Unbound
        /\ stop = 5
        /\ best_X = Unbound /\ best_Y = Unbound /\ best_Z = Unbound /\ best_error = PInf
        /\ path = <<>>
        /\ \A a \in 1 .. 4 : \A j \in DOMAIN Diagnostics[a] : Diagnostics[a][j] = Uninit
        /\ x = flatten_concat(X, Y, Z)
C10_Step ==
    pc' = "sys.exit" =>
        UNCHANGED <<x, X, Y, Z, damp, stop, best_error, best_X, best_Y, best_Z,
                    step_sizes, errors, improv, gradients, ret>>
C10_UnknownMethodAborts == []C10_State /\ [][C10_Step]_vars
\* The call with method 'bogus' ended in sys.exit.
C10_Witness ==
    /\ pc = "sys.exit" /\ method_info[1] = "bogus" /\ fix_mode = -1
    /\ it = 0 /\ options.maxiter > 1

\* C11: method 'als' is supported: when it is the method selected (by
\* options.method, or by bi_method_parameters with a fixed factor),
\* compute_step does not end the call, and the step it hands back is the
\* zero vector.
C11_AlsSupported ==
    method_info[1] = "als" =>
        /\ ~Aborted
        /\ it >= 0 => y = ConstVec(Zero)

\* C12: for an all-zero T (and a CG method, maxiter >= 3) every recorded
\* relative error is 0, and the loop is left at iteration index 2 with stop
\* code 0, which dGN returns.
ZeroTensor == \A ijk \in Idx3 : T[ijk] = Zero
C12_ZeroTensor ==
    (ZeroTensor /\ CgMethod /\ options.maxiter >= 3) =>
        /\ \A j \in 0 .. it : errors[j] = Zero
        /\ it <= 2
        /\ LoopOver => (it = 2 /\ stop = 0 /\ pc # "UnboundLocalError")
        /\ pc = "returned" => ret.stop = 0

\* numpy.random's global generator is the one piece of state an invocation
\* finds as earlier invocations left it: at outer iteration i, randint can
\* hand back any of RngOutcomes(i), depending on that state.
RngOutcomes(i) == randint_values(i)
\* The results compute_step can have in the next outer iteration when randint
\* hands back rnd.
StepResults(rnd) ==
    compute_step(X, Y, Z, residual(res, T, T_approx), damp, method_info, it + 1, rnd, Draws)
AtLoopHead == pc = "loop" /\ it + 1 < options.maxiter
\* Whatever randint hands back, compute_step has the same results.
SameStepResults ==
    \E r0 \in {CHOOSE r \in RngOutcomes(it + 1) : TRUE} :
    \E base \in {StepResults(r0)} :
        \A r \in RngOutcomes(it + 1) \ {r0} : StepResults(r) = base

\* C13 as stated: two invocations that reached the same state take the same
\* step, whatever state earlier invocations left behind: the results of
\* compute_step (the inner budget among them) do not depend on the generator.
C13_Independent == AtLoopHead => SameStepResults

\* C13 amended: with every method but 'cg' the step computed from a state
\* does not depend on the generator; with 'cg' the generator decides the
\* inner budget and nothing else: the budget is 1 + cg_factor * r for the r
\* drawn, and the budget of the last cg call is one of these.
C13_IndependentButCgBudget ==
    /\ (AtLoopHead /\ method_info[1] # "cg") => SameStepResults
    /\ (AtLoopHead /\ CgMethod /\ method_info[1] = "cg") =>
           \A r \in RngOutcomes(it + 1) : \A c \in StepResults(r) :
               c.cg_maxiter = 1 + method_info[3] * r
    /\ (CgMethod /\ method_info[1] = "cg" /\ it >= 0) =>
           cg_maxiter \in {1 + method_info[3] * r : r \in RngOutcomes(it)}
\* Method 'cg_static' about to run the outer iteration in which the generator
\* has two outcomes, after a call of cg with its fixed budget.
C13_Witness ==
    /\ AtLoopHead /\ method_info[1] = "cg_static"
    /\ Cardinality(RngOutcomes(it + 1)) > 1
    /\ cg_maxiter = method_info[2] /\ itn >= 1

\* The gain ratio 2(old - err)/(old - rn) of finite old, err, rn, compared
\* with a/b (b > 0) by cross-multiplication: "lt", "eq", "gt", or "nan" for
\* 0/0; x/0 is an infinity with the sign of x.
GainVs(old, err, rn, a, b) ==
    LET num == 2 * (old.v - err.v)
        den == old.v - rn.v
    IN  IF den = 0 THEN (IF num = 0 THEN "nan" ELSE IF num > 0 THEN "gt" ELSE "lt")
        ELSE IF den > 0
             THEN (IF num * b < a * den THEN "lt" ELSE IF num * b = a * den THEN "eq" ELSE "gt")
             ELSE (IF num * b > a * den THEN "lt" ELSE IF num * b = a * den THEN "eq" ELSE "gt")
\* The rational d2 is a/b times the rational d1.
DampTimes(d1, d2, a, b) == d2.num * d1.den * b = a * d1.num * d2.den
\* The outer iteration just made ran to its end (no abort in compute_step).
IterationMade == pc = "loop" /\ pc' \in {"loop", "exit"}

\* The rule of C14 for one update: errors old and err, residual norm rn,
\* damp d1 before and d2 after; rho is the gain ratio.
GainRule(old, err, rn, d1, d2) ==
    (IsFin(old) /\ IsFin(err) /\ IsFin(rn)) =>
        LET lo == GainVs(old, err, rn, 3, 4)
            hi == GainVs(old, err, rn, 9, 10)
        IN  /\ lo = "lt" => DampTimes(d1, d2, 1, 2)
            /\ hi = "gt" => DampTimes(d1, d2, 3, 2)
            /\ (lo \in {"eq", "gt"} /\ hi \in {"lt", "eq"}) => d2 = d1

\* C14: update_damp called with errors old_error and error and residual norm
\* residualnorm (all finite, gain ratio rho not 0/0) returns damp/2 if
\* rho < 0.75, 1.5 damp if rho > 0.9 and damp as it was if 0.75 <= rho <= 0.9.
\* In dGN old_error is what error was before the iteration (1 in the first
\* one), error and residualnorm are the ones of the iteration, and damp
\* becomes what update_damp returns for them.
C14_Call ==
    pc = "update_damp" => GainRule(old_error, error, residualnorm, damp, damp')
C14_Step ==
    IterationMade =>
        /\ old_error' = error
        /\ it' = 0 => old_error' = Fin(Unit)
        /\ GainRule(old_error', error', residualnorm', damp, damp')
C14_GainRatio == [][C14_Call /\ C14_Step]_vars
\* update_damp left damp as it was for a gain ratio strictly between 0.75
\* and 0.9, with old_error below residualnorm.
C14_Witness ==
    /\ pc = "update_damp returned" /\ damp \in DampValues
    /\ GainVs(old_error, error, residualnorm, 3, 4) = "gt"
    /\ GainVs(old_error, error, residualnorm, 9, 10) = "lt"
    /\ FLt(old_error, residualnorm)

\* C15: an outer iteration in which old_error equals the residual norm cg
\* returned multiplies damp by 1.5 (the gain ratio counts as 1.0), whatever
\* the new error is.
C15_Step ==
    (IterationMade /\ IsFin(residualnorm') /\ old_error' = residualnorm') =>
        DampTimes(damp, damp', 3, 2)
C15_GuardedRatio == [][C15_Step]_vars

\* damp0 = init_damp * mean(|T|), as the rational damp0.num / damp0.den.
damp0 ==
    [num |-> options.init_damp * FSumTo([s \in 0 .. (m * n * p - 1) |-> FAbs(ravel(T)[s])],
                                       m * n * p).v,
     den |-> m * n * p]
\* dGN is running or has run (the call did not abort in compute_step).
Running == pc \in {"loop", "exit", "returned", "UnboundLocalError"}

\* C16: with init_damp > 0 and a T that has a nonzero entry, damp is positive
\* in every state of the loop; it is damp0 = init_damp * mean(|T|) before the
\* first iteration; every iteration multiplies it by 1/2, by 1 or by 3/2; so
\* after k iterations it is damp0 * (1/2)^a * (3/2)^b with a + b <= k.
C16_State ==
    (Running /\ options.init_damp > 0 /\ ~ZeroTensor) =>
        /\ damp.num > 0 /\ damp.den > 0
        /\ \E d0 \in {damp0} :
               /\ it = -1 => damp = d0
               /\ \E a, b \in 0 .. (it + 1) :
                      /\ a + b <= it + 1
                      /\ damp.num * d0.den * Pow(2, a + b) = d0.num * Pow(3, b) * damp.den
C16_Step ==
    IterationMade =>
        \/ DampTimes(damp, damp', 1, 2)
        \/ DampTimes(damp, damp', 1, 1)
        \/ DampTimes(damp, damp', 3, 2)
C16_DampPositive == []C16_State /\ [][C16_Step]_vars
\* After three iterations damp is damp0 * (1/2)^2 * (3/2).
C16_Witness ==
    /\ Running /\ it = 2 /\ ~ZeroTensor
    /\ DampTimes(damp0, damp, 3, 8)

\* A call of cg has returned: the one made on its own, or the one of the
\* last outer iteration of dGN; and the R * (m + n + p) of that call.
CgReturned == pc = "cg returned" \/ (CgMethod /\ Running /\ it >= 0)
DofOfCall == IF pc = "cg returned" THEN CgDof ELSE R * (m + n + p)

\* C17: a call of cg made between 1 and min(budget, R(m+n+p)) iterations, and
\* the count it returned is the number of iterations it ran (one residual
\* norm recorded in each); with 'cg_static' the budget is the configured
\* cg_maxiter at every outer iteration, with 'cg' the budget is at least 1.
C17_State ==
    CgReturned =>
        /\ itn = Len(residualnorm_list)
        /\ itn >= 1
        /\ itn <= cg_maxiter /\ itn <= DofOfCall
        /\ method_info[1] = "cg_static" => cg_maxiter = method_info[2]
        /\ method_info[1] = "cg" => cg_maxiter >= 1
C17_Step == method_info' = method_info
C17_CgIterations == []C17_State /\ [][C17_Step]_vars
\* A call with a budget above R(m+n+p) ran R(m+n+p) iterations.
C17_Witness ==
    /\ pc = "cg returned" /\ cg_maxiter > CgDof
    /\ itn = CgDof /\ Len(residualnorm_list) = CgDof

\* The call of cg that returned: its tolerance, the cap of its loop, its const.
TolOfCall == method_info[4]
CapOfCall == MinInt(cg_maxiter, DofOfCall)
ConstOfCall == 2 + (CapOfCall \div 5)
\* residualnorm_list[a] + ... + residualnorm_list[b], positions counted from 1.
WindowSum(a, b) == FSumTo([i \in 0 .. (b - a) |-> residualnorm_list[a + i]], b - a + 1)
\* The test of lines 420-421 at iteration j (counted from 0): j is a multiple
\* of const and at least 2 const, and the const norms of iterations
\* j-2const .. j-const-1 have a smaller mean than those of j-const .. j-1.
PlateauAt(j) ==
    /\ j >= 2 * ConstOfCall
    /\ j % ConstOfCall = 0
    /\ FLt(WindowSum(j - 2 * ConstOfCall + 1, j - ConstOfCall),
           WindowSum(j - ConstOfCall + 1, j))
\* The plateau rule as C19 words it, at iteration j: 2 const norms are
\* recorded, and the last const of them have a mean no smaller than the
\* const before them.
PlateauAsStatedAt(j) ==
    /\ j + 1 >= 2 * ConstOfCall
    /\ FLe(WindowSum(j - 2 * ConstOfCall + 2, j - ConstOfCall + 1),
           WindowSum(j - ConstOfCall + 2, j + 1))

\* C18 as stated: an iteration whose residual norm is less than or equal to
\* tol is the last one of the call.
C18_ExitAtOrBelowTol ==
    CgReturned =>
        \A j \in 1 .. (itn - 1) : ~FLe(residualnorm_list[j], TolOfCall)
\* C18 amended: an iteration whose residual norm is less than tol is the
\* last one; a call that ended before its cap, and not by the plateau test,
\* ended on a residual norm less than tol (one equal to tol does not end it).
C18_ExitBelowTol ==
    CgReturned =>
        /\ \A j \in 1 .. (itn - 1) : ~FLt(residualnorm_list[j], TolOfCall)
        /\ (itn < CapOfCall /\ ~PlateauAt(itn - 1)) => FLt(residualnorm_list[itn], TolOfCall)
\* A call that went past a residual norm equal to tol and ended, before its
\* cap, on one below tol.
C18_Witness ==
    /\ pc = "cg returned" /\ itn < CapOfCall
    /\ \E j \in 1 .. (itn - 1) : residualnorm_list[j] = TolOfCall
    /\ FLt(residualnorm_list[itn], TolOfCall)

\* C19 as stated: no iteration before the last one met the plateau rule as
\* worded (cg would have left the loop there).
C19_PlateauAsStated ==
    CgReturned =>
        \A j \in 0 .. (itn - 2) : ~PlateauAsStatedAt(j)
\* C19 amended: no iteration before the last one met the test of lines
\* 420-421, and a call that ended before its cap on a residual norm not
\* below tol ended by that test.
C19_PlateauAsCoded ==
    CgReturned =>
        /\ \A j \in 0 .. (itn - 2) : ~PlateauAt(j)
        /\ (itn < CapOfCall /\ ~FLt(residualnorm_list[itn], TolOfCall)) => PlateauAt(itn - 1)
\* A call that ended by the plateau test, before its cap.
C19_Witness ==
    /\ pc = "cg returned" /\ itn < CapOfCall
    /\ ~FLt(residualnorm_list[itn], TolOfCall)
    /\ PlateauAt(itn - 1)

\* C20: no division of cg has a zero divisor, so cg hands back no NaN and no
\* infinity: the residual norms it recorded, the one it returned, the step
\* and the gradient are finite numbers, whatever cg_tol and the gradient are.
C20_NoNaNFromCg ==
    (CgMethod /\ Running /\ it >= 0) =>
        /\ IsFin(residualnorm)
        /\ \A j \in 1 .. Len(residualnorm_list) : IsFin(residualnorm_list[j])
        /\ \A s \in 0 .. (VLen - 1) : IsFin(y[s])

\* An iteration of the loop of cg was made.
SolveIterationMade == pc = "cg for" /\ itn' = itn + 1

\* C21: every iteration of cg, the first one included, is a step of standard
\* preconditioned CG: y moves by alpha along the direction P the iteration
\* started with, the residual becomes r - alpha z, and the next direction is
\* the new residual plus beta times that same direction P (the in-place
\* update of the residual leaves it as it was).
C21_Step ==
    SolveIterationMade =>
        /\ y' = RVAdd(y, RVScale(alpha', heap[P]))
        /\ heap'[residual_cg'] = RVSub(heap[residual_cg], RVScale(alpha', z'))
        /\ heap'[P'] = RVAdd(heap'[residual_cg'], RVScale(beta', heap[P]))
C21_StandardRecurrences == [][C21_Step]_vars

\* C22: every entry of the Gamma and of the M that a CG solve builds from
\* factors with finite entries is a positive finite number, also when a
\* column of a factor is entirely zero.
FiniteFactors ==
    /\ \A q \in DOMAIN X : IsFin(X[q])
    /\ \A q \in DOMAIN Y : IsFin(Y[q])
    /\ \A q \in DOMAIN Z : IsFin(Z[q])
C22_PositiveGammaM ==
    (AtLoopHead /\ CgMethod /\ FiniteFactors) =>
        \E Gamma \in {regularization(X, Y, Z)} :
        \E M1 \in {precond(X, Y, Z, Gamma, damp)} :
            \A s \in 0 .. (VLen - 1) :
                /\ IsFin(Gamma[s]) /\ Gamma[s].v > 0
                /\ M1[s].k = "rsqrt"

\* C23: whatever the interleaving of the iterations of its parallel loops,
\* rmatvec returns what it returns when the iterations run one after the
\* other.
C23_SameAsSequential ==
    pc = "rmatvec returned" => ret = rmatvec_rank(u, X, Y, Z, RaceR)

\* The arrays cg computes from the factors before its loop.
CachedArrays ==
    <<data.Gr_X, data.Gr_Y, data.Gr_Z, data.Gr_XY, data.Gr_XZ, data.Gr_YZ,
      data.Gamma, data.L, data.M>>
InCg == pc \in {"cg arrays", "cg matvec", "cg out"}

\* C24: no step of a cg call changes X, Y or Z; the step before the first
\* iteration sets the Gramians, their pairwise Hadamard products, Gamma and
\* M to their values for these factors, and no later step of the call
\* (an iteration with its matvec, the return) changes any of them.
C24_Step ==
    InCg =>
        /\ X' = X /\ Y' = Y /\ Z' = Z
        /\ pc = "cg arrays" =>
               /\ itn = -1
               /\ data'.Gr_X = gramian(X, m)
               /\ data'.Gr_Y = gramian(Y, n)
               /\ data'.Gr_Z = gramian(Z, p)
               /\ data'.Gr_XY = hadamard(gramian(X, m), gramian(Y, n))
               /\ data'.Gr_XZ = hadamard(gramian(X, m), gramian(Z, p))
               /\ data'.Gr_YZ = hadamard(gramian(Y, n), gramian(Z, p))
               /\ data'.Gamma = regularization(X, Y, Z)
               /\ data'.L = data'.Gamma
               /\ data'.M = precond(X, Y, Z, data'.Gamma, damp)
        /\ pc # "cg arrays" => CachedArrays' = CachedArrays
C24_FactorsFrozen == [][C24_Step]_vars
\* A call has returned after two iterations whose matvec wrote its arrays.
C24_Witness ==
    /\ pc = "cg left"
    /\ ret.itn = 2
    /\ data.B_XY_v[0] # Uninit
    /\ data.B_XY_v[0] # Zero
    /\ data.Gr_YZ = hadamard(gramian(Y, n), gramian(Z, p))
    /\ data.Gr_YZ[<<0, 0>>].v > 1

\* C25: after every outer iteration x is the concatenation of the
\* column-major flattenings of the current factors X, Y, Z, also when one
\* factor is held fixed.
C25_StateVector ==
    (InLoop /\ it >= 0) => x = flatten_concat(X, Y, Z)

InStopping == pc \in {"stopping conditions", "stopping conditions left"}
\* errors[a] + ... + errors[b - 1]
ErrorsFrom(a, b) == FSumTo([j \in 0 .. (b - a - 1) |-> errors[a + j]], b - a)
NoneOf0To3(i) == \A c \in {0, 1, 2, 3} : ~Held(c, i)

Dims == <<args.m, args.n, args.p>>

\* C27: for every shape one of the six branches of sort_dims applies; the
\* ordering returned is a permutation of 0, 1, 2; T_sorted has the shape
\* (dims[ordering[0]], dims[ordering[1]], dims[ordering[2]]), which is
\* non-increasing; every entry T_sorted[i0, i1, i2] was read inside T and is
\* the entry of T whose index along mode ordering[t] is i_t.
C27_SortDims ==
    /\ pc # "UnboundLocalError"
    /\ pc = "unsort_dims" =>
        \E o \in {ret.ordering} :
        \E sh \in {ret.T_sorted.shape} :
            /\ ret.status = "ok"
            /\ Len(o) = 3
            /\ {At(o, t) : t \in 0 .. 2} = {0, 1, 2}
            /\ sh = <<At(Dims, At(o, 0)), At(Dims, At(o, 1)), At(Dims, At(o, 2))>>
            /\ At(sh, 0) >= At(sh, 1) /\ At(sh, 1) >= At(sh, 2)
            /\ DOMAIN ret.T_sorted.at = Box(At(sh, 0), At(sh, 1), At(sh, 2))
            /\ \A idx \in DOMAIN ret.T_sorted.at :
                   /\ ret.T_sorted.at[idx] # OutOfBounds
                   /\ ret.T_sorted.at[idx] \in DOMAIN args.T.at
                   /\ \A t \in 0 .. 2 : At(ret.T_sorted.at[idx], At(o, t)) = At(idx, t)
\* sort_dims has sorted a tensor whose second mode is the longest and whose
\* first mode is the shortest.
C27_Witness ==
    /\ pc = "unsort_dims"
    /\ args.m < args.p /\ args.p < args.n
    /\ ret.ordering = <<1, 2, 0>>
    /\ ret.T_sorted.at[<<2, 1, 0>>] = <<0, 2, 1>>

\* C28: unsort_dims, called with the ordering sort_dims returned and the
\* factors of the modes 0, 1, 2 of the sorted tensor, returns the factors in
\* the order of the modes of T: the k-th factor returned is the one of the
\* sorted mode t with ordering[t] = k, and it has as many rows as mode k of T.
C28_RoundTrip ==
    pc = "unsort_dims returned" =>
        /\ Len(ret) = 3
        /\ \A k \in 0 .. 2 :
               /\ At(args.ordering, At(ret, k).mode) = k
               /\ At(ret, k).rows = At(Dims, k)
\* The round trip of a tensor whose third mode is the longest and whose
\* second mode is the shortest.
C28_Witness ==
    /\ pc = "unsort_dims returned"
    /\ args.n < args.m /\ args.m < args.p
    /\ args.ordering = <<2, 0, 1>>
    /\ ret = <<Y, Z, X>>

\* The reason dGN documents for each stop code (docstring, lines 60-72), and
\* the reason a line printed by stop_msg states.
Documented(c) ==
    CASE c = 0 -> "error below tol"
      [] c = 1 -> "small step"
      [] c = 2 -> "small improvement"
      [] c = 3 -> "small gradient"
      [] c = 4 -> "error plateau"
      [] c = 5 -> "iteration limit"
      [] c = 6 -> "divergence"
ReasonOf(line) ==
    CASE line = "0 - Steps are too small." -> "small step"
      [] line = "1 - The improvement in the relative error is too small." -> "small improvement"
      [] line = "2 - The gradient is close enough to 0." -> "small gradient"
      [] line = "3 - The average of the last k relative errors is too small, where k = 1 + int(maxiter/10)."
             -> "error plateau"
      [] line = "4 - Limit of iterations was been reached." -> "iteration limit"
      [] line = "5 - No refinement was performed." -> "no refinement"
      [] line = "6 - dGN diverged." -> "divergence"
      [] OTHER -> "none"
\* The lines printed after the line header, up to the next empty line.
SectionOf(header) ==
    LET h == CHOOSE i \in 1 .. Len(stdout) : stdout[i] = header
        ends == {j \in (h + 1) .. Len(stdout) : stdout[j] = ""} \cup {Len(stdout) + 1}
        e == CHOOSE j \in ends : \A j2 \in ends : j <= j2
    IN  SubSeq(stdout, h + 1, e - 1)

\* C29: for every stop code 0..6 of the main stage and of the refinement
\* stage, stop_msg prints exactly one line for the stage, and the line
\* states the reason dGN documents for the code.
C29_StopMessages ==
    pc = "stop_msg returned" =>
        \A stage \in {<<"Main stop:", 1>>, <<"Refinement stop:", 2>>} :
            \E lines \in {SectionOf(stage[1])} :
                /\ Len(lines) = 1
                /\ ReasonOf(lines[1]) = Documented(At(args.stop, stage[2]))

\* The slot of entry e of a factor in a vector of length R*(m + n + p): the
\* X block is [0, mR), the Y block [mR, (m+n)R), the Z block [(m+n)R,
\* (m+n+p)R), and column r of a factor with d rows is at [r*d, (r+1)*d).
BlockStart(sh, b) ==
    IF b = "X" THEN 0 ELSE IF b = "Y" THEN sh.m * sh.R ELSE (sh.m + sh.n) * sh.R
InColumn(sh, e, s) ==
    /\ s >= BlockStart(sh, e[1]) + e[3] * RowsOf(sh, e)
    /\ s < BlockStart(sh, e[1]) + (e[3] + 1) * RowsOf(sh, e)
    /\ s - (BlockStart(sh, e[1]) + e[3] * RowsOf(sh, e)) = e[2]

\* C30: (1) every slot 0 .. m*n*p - 1 of res is written exactly once, entry
\* (i, j, k) at n*p*i + p*j + k, and rmatvec reads entry (i, j, k) from the
\* slot residual wrote it to; (2) in x, Gamma, M, the gradient, the input and
\* the output of matvec, every slot holds exactly one entry of one factor,
\* and the entry it holds is the one of the layout by blocks and columns.
C30_Layouts ==
    pc = "layouts" =>
        /\ res # Unbound =>
               /\ DOMAIN res = 0 .. (args.m * args.n * args.p - 1)
               /\ \A s \in DOMAIN res : Cardinality(res[s]) = 1
               /\ \A ijk \in Box(args.m, args.n, args.p) :
                      res[args.n * args.p * ijk[1] + args.p * ijk[2] + ijk[3]] = {ijk}
        /\ u # Unbound => \A ijk \in Box(args.m, args.n, args.p) : u[ijk] = {ijk}
        /\ data # Unbound =>
               \A v \in {data.x, data.Gamma, data.M, data.grad, data.Q, data.z} :
                   /\ DOMAIN v = 0 .. (args.R * (args.m + args.n + args.p) - 1)
                   /\ \A s \in DOMAIN v :
                          /\ Cardinality(v[s]) = 1
                          /\ \A e \in v[s] : InColumn(args, e, s)
\* The three layouts are there for a shape of three different dimensions
\* and two columns.
C30_Witness ==
    /\ pc = "layouts"
    /\ args = [m |-> 3, n |-> 1, p |-> 2, R |-> 2]
    /\ res # Unbound /\ u # Unbound /\ data # Unbound
    /\ res[5] = {<<2, 0, 1>>}
    /\ data.Gamma[7] = {<<"Y", 0, 1>>}
    /\ data.z[10] = {<<"Z", 0, 1>>}
====
